---- MODULE Spec2Model ----
(***************************************************************************)
(* Model of the smart-receipt-parser lambdas.                              *)
(*                                                                         *)
(* A text (a Python str) is the sequence of the code points of its         *)
(* characters, so the regular expressions, json.loads and float() of the   *)
(* Python source are computed here the way the interpreter computes them,  *)
(* on the same characters.  A float is held as the decimal repr() writes   *)
(* of it, an int and a Decimal as their digits.                            *)
(***************************************************************************)
EXTENDS Integers, Sequences, FiniteSets, TLC

VARIABLES pc, nrec, idx, ocrRaised, text, attempt, calls, fellBack, failures,
          reply, receipt_data, table, response, status, arg, ret,
          reads, event, executions, frames

vars == <<pc, nrec, idx, ocrRaised, text, attempt, calls, fellBack, failures,
          reply, receipt_data, table, response, status, arg, ret,
          reads, event, executions, frames>>

\* what the OCR processor leaves alone: the table reads of the query API,
\* the event and executions of the workflow trigger, and the calls under
\* way in the function a run starts with
others == <<reads, event, executions, frames>>

(***************************************************************************)
(* Characters and strings.  A character is its code point, from 0 to       *)
(* 1114111, and a text is a sequence of characters.  The tables below are  *)
(* those of the interpreter (Unicode 14).                                  *)
(***************************************************************************)
\* the characters from the space to the tilde in the order of their codes,
\* the grave accent (96) left out
Printable == " !\"#$%&'()*+,-./0123456789:;<=>?@ABCDEFGHIJKLMNOPQRSTUVWXYZ[\\]^_abcdefghijklmnopqrstuvwxyz{|}~"

\* the place of a character in Printable
PlaceOf(c) == CHOOSE j \in 1..Len(Printable) : SubSeq(Printable, j, j) = c

\* ord(c), for the characters that the literals of this module are written with
Ord == [c \in { SubSeq(Printable, j, j) : j \in 1..Len(Printable) } |-> IF PlaceOf(c) <= 64 THEN PlaceOf(c) + 31 ELSE PlaceOf(c) + 32] @@ ("\t" :> 9) @@ ("\n" :> 10) @@ ("\f" :> 12) @@ ("\r" :> 13) @@ ("£" :> 163) @@ ("¥" :> 165) @@ ("€" :> 8364)

\* the text that the literal s writes
T(s) == [j \in 1..Len(s) |-> Ord[SubSeq(s, j, j)]]

\* the code of the grave accent
GraveAccent == 96

Ch(s, i) == s[i]

CharsOf(s) == { s[j] : j \in 1..Len(s) }

\* [A-Z]
Upper == 65..90

\* [a-z]
Lower == 97..122

\* [A-Za-z]
Alpha == Upper \cup Lower

\* [0-9]
Digit == 48..57

\* str.isspace(): \s of the re module, which is also what str.strip() and
\* Decimal() remove
Space == {9, 10, 11, 12, 13, 28, 29, 30, 31, 32, 133, 160, 5760, 8192, 8193, 8194, 8195, 8196, 8197, 8198, 8199, 8200, 8201, 8202, 8232, 8233, 8239, 8287, 12288}

\* the characters of Space that float() does not remove
NotFloatSpace == {28, 29, 30, 31}

CurrencySymbol == {Ord["£"], Ord["$"], Ord["€"], Ord["¥"]}

\* the characters that have a lower case, and the lower case of each as one
\* character, in the same order
LowerSource == <<65, 66, 67, 68, 69, 70, 71, 72, 73, 74, 75, 76, 77, 78, 79, 80, 81, 82, 83, 84, 85, 86, 87, 88, 89, 90, 192, 193, 194, 195, 196, 197, 198, 199, 200, 201, 202, 203, 204, 205, 206, 207, 208, 209, 210, 211, 212, 213, 214, 216, 217, 218, 219, 220, 221, 222, 256, 258, 260, 262, 264, 266, 268, 270, 272, 274, 276, 278, 280, 282, 284, 286, 288, 290, 292, 294, 296, 298, 300, 302, 304, 306, 308, 310, 313, 315, 317, 319, 321, 323, 325, 327, 330, 332, 334, 336, 338, 340, 342, 344, 346, 348, 350, 352, 354, 356, 358, 360, 362, 364, 366, 368, 370, 372, 374, 376, 377, 379, 381, 385, 386, 388, 390, 391, 393, 394, 395, 398, 399, 400, 401, 403, 404, 406, 407, 408, 412, 413, 415, 416, 418, 420, 422, 423, 425, 428, 430, 431, 433, 434, 435, 437, 439, 440, 444, 452, 453, 455, 456, 458, 459, 461, 463, 465, 467, 469, 471, 473, 475, 478, 480, 482, 484, 486, 488, 490, 492, 494, 497, 498, 500, 502, 503, 504, 506, 508, 510, 512, 514, 516, 518, 520, 522, 524, 526, 528, 530, 532, 534, 536, 538, 540, 542, 544, 546, 548, 550, 552, 554, 556, 558, 560, 562, 570, 571, 573, 574, 577, 579, 580, 581, 582, 584, 586, 588, 590, 880, 882, 886, 895, 902, 904, 905, 906, 908, 910, 911, 913, 914, 915, 916, 917, 918, 919, 920, 921, 922, 923, 924, 925, 926, 927, 928, 929, 931, 932, 933, 934, 935, 936, 937, 938, 939, 975, 984, 986, 988, 990, 992, 994, 996, 998, 1000, 1002, 1004, 1006, 1012, 1015, 1017, 1018, 1021, 1022, 1023, 1024, 1025, 1026, 1027, 1028, 1029, 1030, 1031, 1032, 1033, 1034, 1035, 1036, 1037, 1038, 1039, 1040, 1041, 1042, 1043, 1044, 1045, 1046, 1047, 1048, 1049, 1050, 1051, 1052, 1053, 1054, 1055, 1056, 1057, 1058, 1059, 1060, 1061, 1062, 1063, 1064, 1065, 1066, 1067, 1068, 1069, 1070, 1071, 1120, 1122, 1124, 1126, 1128, 1130, 1132, 1134, 1136, 1138, 1140, 1142, 1144, 1146, 1148, 1150, 1152, 1162, 1164, 1166, 1168, 1170, 1172, 1174, 1176, 1178, 1180, 1182, 1184, 1186, 1188, 1190, 1192, 1194, 1196, 1198, 1200, 1202, 1204, 1206, 1208, 1210, 1212, 1214, 1216, 1217, 1219, 1221, 1223, 1225, 1227, 1229, 1232, 1234, 1236, 1238, 1240, 1242, 1244, 1246, 1248, 1250, 1252, 1254, 1256, 1258, 1260, 1262, 1264, 1266, 1268, 1270, 1272, 1274, 1276, 1278, 1280, 1282, 1284, 1286, 1288, 1290, 1292, 1294, 1296, 1298, 1300, 1302, 1304, 1306, 1308, 1310, 1312, 1314, 1316, 1318, 1320, 1322, 1324, 1326, 1329, 1330, 1331, 1332, 1333, 1334, 1335, 1336, 1337, 1338, 1339, 1340, 1341, 1342, 1343, 1344, 1345, 1346, 1347, 1348, 1349, 1350, 1351, 1352, 1353, 1354, 1355, 1356, 1357, 1358, 1359, 1360, 1361, 1362, 1363, 1364, 1365, 1366, 4256, 4257, 4258, 4259, 4260, 4261, 4262, 4263, 4264, 4265, 4266, 4267, 4268, 4269, 4270, 4271, 4272, 4273, 4274, 4275, 4276, 4277, 4278, 4279, 4280, 4281, 4282, 4283, 4284, 4285, 4286, 4287, 4288, 4289, 4290, 4291, 4292, 4293, 4295, 4301, 5024, 5025, 5026, 5027, 5028, 5029, 5030, 5031, 5032, 5033, 5034, 5035, 5036, 5037, 5038, 5039, 5040, 5041, 5042, 5043, 5044, 5045, 5046, 5047, 5048, 5049, 5050, 5051, 5052, 5053, 5054, 5055, 5056, 5057, 5058, 5059, 5060, 5061, 5062, 5063, 5064, 5065, 5066, 5067, 5068, 5069, 5070, 5071, 5072, 5073, 5074, 5075, 5076, 5077, 5078, 5079, 5080, 5081, 5082, 5083, 5084, 5085, 5086, 5087, 5088, 5089, 5090, 5091, 5092, 5093, 5094, 5095, 5096, 5097, 5098, 5099, 5100, 5101, 5102, 5103, 5104, 5105, 5106, 5107, 5108, 5109, 7312, 7313, 7314, 7315, 7316, 7317, 7318, 7319, 7320, 7321, 7322, 7323, 7324, 7325, 7326, 7327, 7328, 7329, 7330, 7331, 7332, 7333, 7334, 7335, 7336, 7337, 7338, 7339, 7340, 7341, 7342, 7343, 7344, 7345, 7346, 7347, 7348, 7349, 7350, 7351, 7352, 7353, 7354, 7357, 7358, 7359, 7680, 7682, 7684, 7686, 7688, 7690, 7692, 7694, 7696, 7698, 7700, 7702, 7704, 7706, 7708, 7710, 7712, 7714, 7716, 7718, 7720, 7722, 7724, 7726, 7728, 7730, 7732, 7734, 7736, 7738, 7740, 7742, 7744, 7746, 7748, 7750, 7752, 7754, 7756, 7758, 7760, 7762, 7764, 7766, 7768, 7770, 7772, 7774, 7776, 7778, 7780, 7782, 7784, 7786, 7788, 7790, 7792, 7794, 7796, 7798, 7800, 7802, 7804, 7806, 7808, 7810, 7812, 7814, 7816, 7818, 7820, 7822, 7824, 7826, 7828, 7838, 7840, 7842, 7844, 7846, 7848, 7850, 7852, 7854, 7856, 7858, 7860, 7862, 7864, 7866, 7868, 7870, 7872, 7874, 7876, 7878, 7880, 7882, 7884, 7886, 7888, 7890, 7892, 7894, 7896, 7898, 7900, 7902, 7904, 7906, 7908, 7910, 7912, 7914, 7916, 7918, 7920, 7922, 7924, 7926, 7928, 7930, 7932, 7934, 7944, 7945, 7946, 7947, 7948, 7949, 7950, 7951, 7960, 7961, 7962, 7963, 7964, 7965, 7976, 7977, 7978, 7979, 7980, 7981, 7982, 7983, 7992, 7993, 7994, 7995, 7996, 7997, 7998, 7999, 8008, 8009, 8010, 8011, 8012, 8013, 8025, 8027, 8029, 8031, 8040, 8041, 8042, 8043, 8044, 8045, 8046, 8047, 8072, 8073, 8074, 8075, 8076, 8077, 8078, 8079, 8088, 8089, 8090, 8091, 8092, 8093, 8094, 8095, 8104, 8105, 8106, 8107, 8108, 8109, 8110, 8111, 8120, 8121, 8122, 8123, 8124, 8136, 8137, 8138, 8139, 8140, 8152, 8153, 8154, 8155, 8168, 8169, 8170, 8171, 8172, 8184, 8185, 8186, 8187, 8188, 8486, 8490, 8491, 8498, 8544, 8545, 8546, 8547, 8548, 8549, 8550, 8551, 8552, 8553, 8554, 8555, 8556, 8557, 8558, 8559, 8579, 9398, 9399, 9400, 9401, 9402, 9403, 9404, 9405, 9406, 9407, 9408, 9409, 9410, 9411, 9412, 9413, 9414, 9415, 9416, 9417, 9418, 9419, 9420, 9421, 9422, 9423, 11264, 11265, 11266, 11267, 11268, 11269, 11270, 11271, 11272, 11273, 11274, 11275, 11276, 11277, 11278, 11279, 11280, 11281, 11282, 11283, 11284, 11285, 11286, 11287, 11288, 11289, 11290, 11291, 11292, 11293, 11294, 11295, 11296, 11297, 11298, 11299, 11300, 11301, 11302, 11303, 11304, 11305, 11306, 11307, 11308, 11309, 11310, 11311, 11360, 11362, 11363, 11364, 11367, 11369, 11371, 11373, 11374, 11375, 11376, 11378, 11381, 11390, 11391, 11392, 11394, 11396, 11398, 11400, 11402, 11404, 11406, 11408, 11410, 11412, 11414, 11416, 11418, 11420, 11422, 11424, 11426, 11428, 11430, 11432, 11434, 11436, 11438, 11440, 11442, 11444, 11446, 11448, 11450, 11452, 11454, 11456, 11458, 11460, 11462, 11464, 11466, 11468, 11470, 11472, 11474, 11476, 11478, 11480, 11482, 11484, 11486, 11488, 11490, 11499, 11501, 11506, 42560, 42562, 42564, 42566, 42568, 42570, 42572, 42574, 42576, 42578, 42580, 42582, 42584, 42586, 42588, 42590, 42592, 42594, 42596, 42598, 42600, 42602, 42604, 42624, 42626, 42628, 42630, 42632, 42634, 42636, 42638, 42640, 42642, 42644, 42646, 42648, 42650, 42786, 42788, 42790, 42792, 42794, 42796, 42798, 42802, 42804, 42806, 42808, 42810, 42812, 42814, 42816, 42818, 42820, 42822, 42824, 42826, 42828, 42830, 42832, 42834, 42836, 42838, 42840, 42842, 42844, 42846, 42848, 42850, 42852, 42854, 42856, 42858, 42860, 42862, 42873, 42875, 42877, 42878, 42880, 42882, 42884, 42886, 42891, 42893, 42896, 42898, 42902, 42904, 42906, 42908, 42910, 42912, 42914, 42916, 42918, 42920, 42922, 42923, 42924, 42925, 42926, 42928, 42929, 42930, 42931, 42932, 42934, 42936, 42938, 42940, 42942, 42944, 42946, 42948, 42949, 42950, 42951, 42953, 42960, 42966, 42968, 42997, 65313, 65314, 65315, 65316, 65317, 65318, 65319, 65320, 65321, 65322, 65323, 65324, 65325, 65326, 65327, 65328, 65329, 65330, 65331, 65332, 65333, 65334, 65335, 65336, 65337, 65338, 66560, 66561, 66562, 66563, 66564, 66565, 66566, 66567, 66568, 66569, 66570, 66571, 66572, 66573, 66574, 66575, 66576, 66577, 66578, 66579, 66580, 66581, 66582, 66583, 66584, 66585, 66586, 66587, 66588, 66589, 66590, 66591, 66592, 66593, 66594, 66595, 66596, 66597, 66598, 66599, 66736, 66737, 66738, 66739, 66740, 66741, 66742, 66743, 66744, 66745, 66746, 66747, 66748, 66749, 66750, 66751, 66752, 66753, 66754, 66755, 66756, 66757, 66758, 66759, 66760, 66761, 66762, 66763, 66764, 66765, 66766, 66767, 66768, 66769, 66770, 66771, 66928, 66929, 66930, 66931, 66932, 66933, 66934, 66935, 66936, 66937, 66938, 66940, 66941, 66942, 66943, 66944, 66945, 66946, 66947, 66948, 66949, 66950, 66951, 66952, 66953, 66954, 66956, 66957, 66958, 66959, 66960, 66961, 66962, 66964, 66965, 68736, 68737, 68738, 68739, 68740, 68741, 68742, 68743, 68744, 68745, 68746, 68747, 68748, 68749, 68750, 68751, 68752, 68753, 68754, 68755, 68756, 68757, 68758, 68759, 68760, 68761, 68762, 68763, 68764, 68765, 68766, 68767, 68768, 68769, 68770, 68771, 68772, 68773, 68774, 68775, 68776, 68777, 68778, 68779, 68780, 68781, 68782, 68783, 68784, 68785, 68786, 71840, 71841, 71842, 71843, 71844, 71845, 71846, 71847, 71848, 71849, 71850, 71851, 71852, 71853, 71854, 71855, 71856, 71857, 71858, 71859, 71860, 71861, 71862, 71863, 71864, 71865, 71866, 71867, 71868, 71869, 71870, 71871, 93760, 93761, 93762, 93763, 93764, 93765, 93766, 93767, 93768, 93769, 93770, 93771, 93772, 93773, 93774, 93775, 93776, 93777, 93778, 93779, 93780, 93781, 93782, 93783, 93784, 93785, 93786, 93787, 93788, 93789, 93790, 93791, 125184, 125185, 125186, 125187, 125188, 125189, 125190, 125191, 125192, 125193, 125194, 125195, 125196, 125197, 125198, 125199, 125200, 125201, 125202, 125203, 125204, 125205, 125206, 125207, 125208, 125209, 125210, 125211, 125212, 125213, 125214, 125215, 125216, 125217>>

LowerImage == <<97, 98, 99, 100, 101, 102, 103, 104, 105, 106, 107, 108, 109, 110, 111, 112, 113, 114, 115, 116, 117, 118, 119, 120, 121, 122, 224, 225, 226, 227, 228, 229, 230, 231, 232, 233, 234, 235, 236, 237, 238, 239, 240, 241, 242, 243, 244, 245, 246, 248, 249, 250, 251, 252, 253, 254, 257, 259, 261, 263, 265, 267, 269, 271, 273, 275, 277, 279, 281, 283, 285, 287, 289, 291, 293, 295, 297, 299, 301, 303, 105, 307, 309, 311, 314, 316, 318, 320, 322, 324, 326, 328, 331, 333, 335, 337, 339, 341, 343, 345, 347, 349, 351, 353, 355, 357, 359, 361, 363, 365, 367, 369, 371, 373, 375, 255, 378, 380, 382, 595, 387, 389, 596, 392, 598, 599, 396, 477, 601, 603, 402, 608, 611, 617, 616, 409, 623, 626, 629, 417, 419, 421, 640, 424, 643, 429, 648, 432, 650, 651, 436, 438, 658, 441, 445, 454, 454, 457, 457, 460, 460, 462, 464, 466, 468, 470, 472, 474, 476, 479, 481, 483, 485, 487, 489, 491, 493, 495, 499, 499, 501, 405, 447, 505, 507, 509, 511, 513, 515, 517, 519, 521, 523, 525, 527, 529, 531, 533, 535, 537, 539, 541, 543, 414, 547, 549, 551, 553, 555, 557, 559, 561, 563, 11365, 572, 410, 11366, 578, 384, 649, 652, 583, 585, 587, 589, 591, 881, 883, 887, 1011, 940, 941, 942, 943, 972, 973, 974, 945, 946, 947, 948, 949, 950, 951, 952, 953, 954, 955, 956, 957, 958, 959, 960, 961, 963, 964, 965, 966, 967, 968, 969, 970, 971, 983, 985, 987, 989, 991, 993, 995, 997, 999, 1001, 1003, 1005, 1007, 952, 1016, 1010, 1019, 891, 892, 893, 1104, 1105, 1106, 1107, 1108, 1109, 1110, 1111, 1112, 1113, 1114, 1115, 1116, 1117, 1118, 1119, 1072, 1073, 1074, 1075, 1076, 1077, 1078, 1079, 1080, 1081, 1082, 1083, 1084, 1085, 1086, 1087, 1088, 1089, 1090, 1091, 1092, 1093, 1094, 1095, 1096, 1097, 1098, 1099, 1100, 1101, 1102, 1103, 1121, 1123, 1125, 1127, 1129, 1131, 1133, 1135, 1137, 1139, 1141, 1143, 1145, 1147, 1149, 1151, 1153, 1163, 1165, 1167, 1169, 1171, 1173, 1175, 1177, 1179, 1181, 1183, 1185, 1187, 1189, 1191, 1193, 1195, 1197, 1199, 1201, 1203, 1205, 1207, 1209, 1211, 1213, 1215, 1231, 1218, 1220, 1222, 1224, 1226, 1228, 1230, 1233, 1235, 1237, 1239, 1241, 1243, 1245, 1247, 1249, 1251, 1253, 1255, 1257, 1259, 1261, 1263, 1265, 1267, 1269, 1271, 1273, 1275, 1277, 1279, 1281, 1283, 1285, 1287, 1289, 1291, 1293, 1295, 1297, 1299, 1301, 1303, 1305, 1307, 1309, 1311, 1313, 1315, 1317, 1319, 1321, 1323, 1325, 1327, 1377, 1378, 1379, 1380, 1381, 1382, 1383, 1384, 1385, 1386, 1387, 1388, 1389, 1390, 1391, 1392, 1393, 1394, 1395, 1396, 1397, 1398, 1399, 1400, 1401, 1402, 1403, 1404, 1405, 1406, 1407, 1408, 1409, 1410, 1411, 1412, 1413, 1414, 11520, 11521, 11522, 11523, 11524, 11525, 11526, 11527, 11528, 11529, 11530, 11531, 11532, 11533, 11534, 11535, 11536, 11537, 11538, 11539, 11540, 11541, 11542, 11543, 11544, 11545, 11546, 11547, 11548, 11549, 11550, 11551, 11552, 11553, 11554, 11555, 11556, 11557, 11559, 11565, 43888, 43889, 43890, 43891, 43892, 43893, 43894, 43895, 43896, 43897, 43898, 43899, 43900, 43901, 43902, 43903, 43904, 43905, 43906, 43907, 43908, 43909, 43910, 43911, 43912, 43913, 43914, 43915, 43916, 43917, 43918, 43919, 43920, 43921, 43922, 43923, 43924, 43925, 43926, 43927, 43928, 43929, 43930, 43931, 43932, 43933, 43934, 43935, 43936, 43937, 43938, 43939, 43940, 43941, 43942, 43943, 43944, 43945, 43946, 43947, 43948, 43949, 43950, 43951, 43952, 43953, 43954, 43955, 43956, 43957, 43958, 43959, 43960, 43961, 43962, 43963, 43964, 43965, 43966, 43967, 5112, 5113, 5114, 5115, 5116, 5117, 4304, 4305, 4306, 4307, 4308, 4309, 4310, 4311, 4312, 4313, 4314, 4315, 4316, 4317, 4318, 4319, 4320, 4321, 4322, 4323, 4324, 4325, 4326, 4327, 4328, 4329, 4330, 4331, 4332, 4333, 4334, 4335, 4336, 4337, 4338, 4339, 4340, 4341, 4342, 4343, 4344, 4345, 4346, 4349, 4350, 4351, 7681, 7683, 7685, 7687, 7689, 7691, 7693, 7695, 7697, 7699, 7701, 7703, 7705, 7707, 7709, 7711, 7713, 7715, 7717, 7719, 7721, 7723, 7725, 7727, 7729, 7731, 7733, 7735, 7737, 7739, 7741, 7743, 7745, 7747, 7749, 7751, 7753, 7755, 7757, 7759, 7761, 7763, 7765, 7767, 7769, 7771, 7773, 7775, 7777, 7779, 7781, 7783, 7785, 7787, 7789, 7791, 7793, 7795, 7797, 7799, 7801, 7803, 7805, 7807, 7809, 7811, 7813, 7815, 7817, 7819, 7821, 7823, 7825, 7827, 7829, 223, 7841, 7843, 7845, 7847, 7849, 7851, 7853, 7855, 7857, 7859, 7861, 7863, 7865, 7867, 7869, 7871, 7873, 7875, 7877, 7879, 7881, 7883, 7885, 7887, 7889, 7891, 7893, 7895, 7897, 7899, 7901, 7903, 7905, 7907, 7909, 7911, 7913, 7915, 7917, 7919, 7921, 7923, 7925, 7927, 7929, 7931, 7933, 7935, 7936, 7937, 7938, 7939, 7940, 7941, 7942, 7943, 7952, 7953, 7954, 7955, 7956, 7957, 7968, 7969, 7970, 7971, 7972, 7973, 7974, 7975, 7984, 7985, 7986, 7987, 7988, 7989, 7990, 7991, 8000, 8001, 8002, 8003, 8004, 8005, 8017, 8019, 8021, 8023, 8032, 8033, 8034, 8035, 8036, 8037, 8038, 8039, 8064, 8065, 8066, 8067, 8068, 8069, 8070, 8071, 8080, 8081, 8082, 8083, 8084, 8085, 8086, 8087, 8096, 8097, 8098, 8099, 8100, 8101, 8102, 8103, 8112, 8113, 8048, 8049, 8115, 8050, 8051, 8052, 8053, 8131, 8144, 8145, 8054, 8055, 8160, 8161, 8058, 8059, 8165, 8056, 8057, 8060, 8061, 8179, 969, 107, 229, 8526, 8560, 8561, 8562, 8563, 8564, 8565, 8566, 8567, 8568, 8569, 8570, 8571, 8572, 8573, 8574, 8575, 8580, 9424, 9425, 9426, 9427, 9428, 9429, 9430, 9431, 9432, 9433, 9434, 9435, 9436, 9437, 9438, 9439, 9440, 9441, 9442, 9443, 9444, 9445, 9446, 9447, 9448, 9449, 11312, 11313, 11314, 11315, 11316, 11317, 11318, 11319, 11320, 11321, 11322, 11323, 11324, 11325, 11326, 11327, 11328, 11329, 11330, 11331, 11332, 11333, 11334, 11335, 11336, 11337, 11338, 11339, 11340, 11341, 11342, 11343, 11344, 11345, 11346, 11347, 11348, 11349, 11350, 11351, 11352, 11353, 11354, 11355, 11356, 11357, 11358, 11359, 11361, 619, 7549, 637, 11368, 11370, 11372, 593, 625, 592, 594, 11379, 11382, 575, 576, 11393, 11395, 11397, 11399, 11401, 11403, 11405, 11407, 11409, 11411, 11413, 11415, 11417, 11419, 11421, 11423, 11425, 11427, 11429, 11431, 11433, 11435, 11437, 11439, 11441, 11443, 11445, 11447, 11449, 11451, 11453, 11455, 11457, 11459, 11461, 11463, 11465, 11467, 11469, 11471, 11473, 11475, 11477, 11479, 11481, 11483, 11485, 11487, 11489, 11491, 11500, 11502, 11507, 42561, 42563, 42565, 42567, 42569, 42571, 42573, 42575, 42577, 42579, 42581, 42583, 42585, 42587, 42589, 42591, 42593, 42595, 42597, 42599, 42601, 42603, 42605, 42625, 42627, 42629, 42631, 42633, 42635, 42637, 42639, 42641, 42643, 42645, 42647, 42649, 42651, 42787, 42789, 42791, 42793, 42795, 42797, 42799, 42803, 42805, 42807, 42809, 42811, 42813, 42815, 42817, 42819, 42821, 42823, 42825, 42827, 42829, 42831, 42833, 42835, 42837, 42839, 42841, 42843, 42845, 42847, 42849, 42851, 42853, 42855, 42857, 42859, 42861, 42863, 42874, 42876, 7545, 42879, 42881, 42883, 42885, 42887, 42892, 613, 42897, 42899, 42903, 42905, 42907, 42909, 42911, 42913, 42915, 42917, 42919, 42921, 614, 604, 609, 620, 618, 670, 647, 669, 43859, 42933, 42935, 42937, 42939, 42941, 42943, 42945, 42947, 42900, 642, 7566, 42952, 42954, 42961, 42967, 42969, 42998, 65345, 65346, 65347, 65348, 65349, 65350, 65351, 65352, 65353, 65354, 65355, 65356, 65357, 65358, 65359, 65360, 65361, 65362, 65363, 65364, 65365, 65366, 65367, 65368, 65369, 65370, 66600, 66601, 66602, 66603, 66604, 66605, 66606, 66607, 66608, 66609, 66610, 66611, 66612, 66613, 66614, 66615, 66616, 66617, 66618, 66619, 66620, 66621, 66622, 66623, 66624, 66625, 66626, 66627, 66628, 66629, 66630, 66631, 66632, 66633, 66634, 66635, 66636, 66637, 66638, 66639, 66776, 66777, 66778, 66779, 66780, 66781, 66782, 66783, 66784, 66785, 66786, 66787, 66788, 66789, 66790, 66791, 66792, 66793, 66794, 66795, 66796, 66797, 66798, 66799, 66800, 66801, 66802, 66803, 66804, 66805, 66806, 66807, 66808, 66809, 66810, 66811, 66967, 66968, 66969, 66970, 66971, 66972, 66973, 66974, 66975, 66976, 66977, 66979, 66980, 66981, 66982, 66983, 66984, 66985, 66986, 66987, 66988, 66989, 66990, 66991, 66992, 66993, 66995, 66996, 66997, 66998, 66999, 67000, 67001, 67003, 67004, 68800, 68801, 68802, 68803, 68804, 68805, 68806, 68807, 68808, 68809, 68810, 68811, 68812, 68813, 68814, 68815, 68816, 68817, 68818, 68819, 68820, 68821, 68822, 68823, 68824, 68825, 68826, 68827, 68828, 68829, 68830, 68831, 68832, 68833, 68834, 68835, 68836, 68837, 68838, 68839, 68840, 68841, 68842, 68843, 68844, 68845, 68846, 68847, 68848, 68849, 68850, 71872, 71873, 71874, 71875, 71876, 71877, 71878, 71879, 71880, 71881, 71882, 71883, 71884, 71885, 71886, 71887, 71888, 71889, 71890, 71891, 71892, 71893, 71894, 71895, 71896, 71897, 71898, 71899, 71900, 71901, 71902, 71903, 93792, 93793, 93794, 93795, 93796, 93797, 93798, 93799, 93800, 93801, 93802, 93803, 93804, 93805, 93806, 93807, 93808, 93809, 93810, 93811, 93812, 93813, 93814, 93815, 93816, 93817, 93818, 93819, 93820, 93821, 93822, 93823, 125218, 125219, 125220, 125221, 125222, 125223, 125224, 125225, 125226, 125227, 125228, 125229, 125230, 125231, 125232, 125233, 125234, 125235, 125236, 125237, 125238, 125239, 125240, 125241, 125242, 125243, 125244, 125245, 125246, 125247, 125248, 125249, 125250, 125251>>

\* those that str.lower() changes into more than one character
LowerLong == (304 :> <<105, 775>>)

\* the characters that str.title() changes at the start of a word into one
\* character, and what it makes of each, in the same order
TitleSource == <<97, 98, 99, 100, 101, 102, 103, 104, 105, 106, 107, 108, 109, 110, 111, 112, 113, 114, 115, 116, 117, 118, 119, 120, 121, 122, 181, 224, 225, 226, 227, 228, 229, 230, 231, 232, 233, 234, 235, 236, 237, 238, 239, 240, 241, 242, 243, 244, 245, 246, 248, 249, 250, 251, 252, 253, 254, 255, 257, 259, 261, 263, 265, 267, 269, 271, 273, 275, 277, 279, 281, 283, 285, 287, 289, 291, 293, 295, 297, 299, 301, 303, 305, 307, 309, 311, 314, 316, 318, 320, 322, 324, 326, 328, 331, 333, 335, 337, 339, 341, 343, 345, 347, 349, 351, 353, 355, 357, 359, 361, 363, 365, 367, 369, 371, 373, 375, 378, 380, 382, 383, 384, 387, 389, 392, 396, 402, 405, 409, 410, 414, 417, 419, 421, 424, 429, 432, 436, 438, 441, 445, 447, 452, 454, 455, 457, 458, 460, 462, 464, 466, 468, 470, 472, 474, 476, 477, 479, 481, 483, 485, 487, 489, 491, 493, 495, 497, 499, 501, 505, 507, 509, 511, 513, 515, 517, 519, 521, 523, 525, 527, 529, 531, 533, 535, 537, 539, 541, 543, 547, 549, 551, 553, 555, 557, 559, 561, 563, 572, 575, 576, 578, 583, 585, 587, 589, 591, 592, 593, 594, 595, 596, 598, 599, 601, 603, 604, 608, 609, 611, 613, 614, 616, 617, 618, 619, 620, 623, 625, 626, 629, 637, 640, 642, 643, 647, 648, 649, 650, 651, 652, 658, 669, 670, 837, 881, 883, 887, 891, 892, 893, 940, 941, 942, 943, 945, 946, 947, 948, 949, 950, 951, 952, 953, 954, 955, 956, 957, 958, 959, 960, 961, 962, 963, 964, 965, 966, 967, 968, 969, 970, 971, 972, 973, 974, 976, 977, 981, 982, 983, 985, 987, 989, 991, 993, 995, 997, 999, 1001, 1003, 1005, 1007, 1008, 1009, 1010, 1011, 1013, 1016, 1019, 1072, 1073, 1074, 1075, 1076, 1077, 1078, 1079, 1080, 1081, 1082, 1083, 1084, 1085, 1086, 1087, 1088, 1089, 1090, 1091, 1092, 1093, 1094, 1095, 1096, 1097, 1098, 1099, 1100, 1101, 1102, 1103, 1104, 1105, 1106, 1107, 1108, 1109, 1110, 1111, 1112, 1113, 1114, 1115, 1116, 1117, 1118, 1119, 1121, 1123, 1125, 1127, 1129, 1131, 1133, 1135, 1137, 1139, 1141, 1143, 1145, 1147, 1149, 1151, 1153, 1163, 1165, 1167, 1169, 1171, 1173, 1175, 1177, 1179, 1181, 1183, 1185, 1187, 1189, 1191, 1193, 1195, 1197, 1199, 1201, 1203, 1205, 1207, 1209, 1211, 1213, 1215, 1218, 1220, 1222, 1224, 1226, 1228, 1230, 1231, 1233, 1235, 1237, 1239, 1241, 1243, 1245, 1247, 1249, 1251, 1253, 1255, 1257, 1259, 1261, 1263, 1265, 1267, 1269, 1271, 1273, 1275, 1277, 1279, 1281, 1283, 1285, 1287, 1289, 1291, 1293, 1295, 1297, 1299, 1301, 1303, 1305, 1307, 1309, 1311, 1313, 1315, 1317, 1319, 1321, 1323, 1325, 1327, 1377, 1378, 1379, 1380, 1381, 1382, 1383, 1384, 1385, 1386, 1387, 1388, 1389, 1390, 1391, 1392, 1393, 1394, 1395, 1396, 1397, 1398, 1399, 1400, 1401, 1402, 1403, 1404, 1405, 1406, 1407, 1408, 1409, 1410, 1411, 1412, 1413, 1414, 5112, 5113, 5114, 5115, 5116, 5117, 7296, 7297, 7298, 7299, 7300, 7301, 7302, 7303, 7304, 7545, 7549, 7566, 7681, 7683, 7685, 7687, 7689, 7691, 7693, 7695, 7697, 7699, 7701, 7703, 7705, 7707, 7709, 7711, 7713, 7715, 7717, 7719, 7721, 7723, 7725, 7727, 7729, 7731, 7733, 7735, 7737, 7739, 7741, 7743, 7745, 7747, 7749, 7751, 7753, 7755, 7757, 7759, 7761, 7763, 7765, 7767, 7769, 7771, 7773, 7775, 7777, 7779, 7781, 7783, 7785, 7787, 7789, 7791, 7793, 7795, 7797, 7799, 7801, 7803, 7805, 7807, 7809, 7811, 7813, 7815, 7817, 7819, 7821, 7823, 7825, 7827, 7829, 7835, 7841, 7843, 7845, 7847, 7849, 7851, 7853, 7855, 7857, 7859, 7861, 7863, 7865, 7867, 7869, 7871, 7873, 7875, 7877, 7879, 7881, 7883, 7885, 7887, 7889, 7891, 7893, 7895, 7897, 7899, 7901, 7903, 7905, 7907, 7909, 7911, 7913, 7915, 7917, 7919, 7921, 7923, 7925, 7927, 7929, 7931, 7933, 7935, 7936, 7937, 7938, 7939, 7940, 7941, 7942, 7943, 7952, 7953, 7954, 7955, 7956, 7957, 7968, 7969, 7970, 7971, 7972, 7973, 7974, 7975, 7984, 7985, 7986, 7987, 7988, 7989, 7990, 7991, 8000, 8001, 8002, 8003, 8004, 8005, 8017, 8019, 8021, 8023, 8032, 8033, 8034, 8035, 8036, 8037, 8038, 8039, 8048, 8049, 8050, 8051, 8052, 8053, 8054, 8055, 8056, 8057, 8058, 8059, 8060, 8061, 8064, 8065, 8066, 8067, 8068, 8069, 8070, 8071, 8080, 8081, 8082, 8083, 8084, 8085, 8086, 8087, 8096, 8097, 8098, 8099, 8100, 8101, 8102, 8103, 8112, 8113, 8115, 8126, 8131, 8144, 8145, 8160, 8161, 8165, 8179, 8526, 8560, 8561, 8562, 8563, 8564, 8565, 8566, 8567, 8568, 8569, 8570, 8571, 8572, 8573, 8574, 8575, 8580, 9424, 9425, 9426, 9427, 9428, 9429, 9430, 9431, 9432, 9433, 9434, 9435, 9436, 9437, 9438, 9439, 9440, 9441, 9442, 9443, 9444, 9445, 9446, 9447, 9448, 9449, 11312, 11313, 11314, 11315, 11316, 11317, 11318, 11319, 11320, 11321, 11322, 11323, 11324, 11325, 11326, 11327, 11328, 11329, 11330, 11331, 11332, 11333, 11334, 11335, 11336, 11337, 11338, 11339, 11340, 11341, 11342, 11343, 11344, 11345, 11346, 11347, 11348, 11349, 11350, 11351, 11352, 11353, 11354, 11355, 11356, 11357, 11358, 11359, 11361, 11365, 11366, 11368, 11370, 11372, 11379, 11382, 11393, 11395, 11397, 11399, 11401, 11403, 11405, 11407, 11409, 11411, 11413, 11415, 11417, 11419, 11421, 11423, 11425, 11427, 11429, 11431, 11433, 11435, 11437, 11439, 11441, 11443, 11445, 11447, 11449, 11451, 11453, 11455, 11457, 11459, 11461, 11463, 11465, 11467, 11469, 11471, 11473, 11475, 11477, 11479, 11481, 11483, 11485, 11487, 11489, 11491, 11500, 11502, 11507, 11520, 11521, 11522, 11523, 11524, 11525, 11526, 11527, 11528, 11529, 11530, 11531, 11532, 11533, 11534, 11535, 11536, 11537, 11538, 11539, 11540, 11541, 11542, 11543, 11544, 11545, 11546, 11547, 11548, 11549, 11550, 11551, 11552, 11553, 11554, 11555, 11556, 11557, 11559, 11565, 42561, 42563, 42565, 42567, 42569, 42571, 42573, 42575, 42577, 42579, 42581, 42583, 42585, 42587, 42589, 42591, 42593, 42595, 42597, 42599, 42601, 42603, 42605, 42625, 42627, 42629, 42631, 42633, 42635, 42637, 42639, 42641, 42643, 42645, 42647, 42649, 42651, 42787, 42789, 42791, 42793, 42795, 42797, 42799, 42803, 42805, 42807, 42809, 42811, 42813, 42815, 42817, 42819, 42821, 42823, 42825, 42827, 42829, 42831, 42833, 42835, 42837, 42839, 42841, 42843, 42845, 42847, 42849, 42851, 42853, 42855, 42857, 42859, 42861, 42863, 42874, 42876, 42879, 42881, 42883, 42885, 42887, 42892, 42897, 42899, 42900, 42903, 42905, 42907, 42909, 42911, 42913, 42915, 42917, 42919, 42921, 42933, 42935, 42937, 42939, 42941, 42943, 42945, 42947, 42952, 42954, 42961, 42967, 42969, 42998, 43859, 43888, 43889, 43890, 43891, 43892, 43893, 43894, 43895, 43896, 43897, 43898, 43899, 43900, 43901, 43902, 43903, 43904, 43905, 43906, 43907, 43908, 43909, 43910, 43911, 43912, 43913, 43914, 43915, 43916, 43917, 43918, 43919, 43920, 43921, 43922, 43923, 43924, 43925, 43926, 43927, 43928, 43929, 43930, 43931, 43932, 43933, 43934, 43935, 43936, 43937, 43938, 43939, 43940, 43941, 43942, 43943, 43944, 43945, 43946, 43947, 43948, 43949, 43950, 43951, 43952, 43953, 43954, 43955, 43956, 43957, 43958, 43959, 43960, 43961, 43962, 43963, 43964, 43965, 43966, 43967, 65345, 65346, 65347, 65348, 65349, 65350, 65351, 65352, 65353, 65354, 65355, 65356, 65357, 65358, 65359, 65360, 65361, 65362, 65363, 65364, 65365, 65366, 65367, 65368, 65369, 65370, 66600, 66601, 66602, 66603, 66604, 66605, 66606, 66607, 66608, 66609, 66610, 66611, 66612, 66613, 66614, 66615, 66616, 66617, 66618, 66619, 66620, 66621, 66622, 66623, 66624, 66625, 66626, 66627, 66628, 66629, 66630, 66631, 66632, 66633, 66634, 66635, 66636, 66637, 66638, 66639, 66776, 66777, 66778, 66779, 66780, 66781, 66782, 66783, 66784, 66785, 66786, 66787, 66788, 66789, 66790, 66791, 66792, 66793, 66794, 66795, 66796, 66797, 66798, 66799, 66800, 66801, 66802, 66803, 66804, 66805, 66806, 66807, 66808, 66809, 66810, 66811, 66967, 66968, 66969, 66970, 66971, 66972, 66973, 66974, 66975, 66976, 66977, 66979, 66980, 66981, 66982, 66983, 66984, 66985, 66986, 66987, 66988, 66989, 66990, 66991, 66992, 66993, 66995, 66996, 66997, 66998, 66999, 67000, 67001, 67003, 67004, 68800, 68801, 68802, 68803, 68804, 68805, 68806, 68807, 68808, 68809, 68810, 68811, 68812, 68813, 68814, 68815, 68816, 68817, 68818, 68819, 68820, 68821, 68822, 68823, 68824, 68825, 68826, 68827, 68828, 68829, 68830, 68831, 68832, 68833, 68834, 68835, 68836, 68837, 68838, 68839, 68840, 68841, 68842, 68843, 68844, 68845, 68846, 68847, 68848, 68849, 68850, 71872, 71873, 71874, 71875, 71876, 71877, 71878, 71879, 71880, 71881, 71882, 71883, 71884, 71885, 71886, 71887, 71888, 71889, 71890, 71891, 71892, 71893, 71894, 71895, 71896, 71897, 71898, 71899, 71900, 71901, 71902, 71903, 93792, 93793, 93794, 93795, 93796, 93797, 93798, 93799, 93800, 93801, 93802, 93803, 93804, 93805, 93806, 93807, 93808, 93809, 93810, 93811, 93812, 93813, 93814, 93815, 93816, 93817, 93818, 93819, 93820, 93821, 93822, 93823, 125218, 125219, 125220, 125221, 125222, 125223, 125224, 125225, 125226, 125227, 125228, 125229, 125230, 125231, 125232, 125233, 125234, 125235, 125236, 125237, 125238, 125239, 125240, 125241, 125242, 125243, 125244, 125245, 125246, 125247, 125248, 125249, 125250, 125251>>

TitleImage == <<65, 66, 67, 68, 69, 70, 71, 72, 73, 74, 75, 76, 77, 78, 79, 80, 81, 82, 83, 84, 85, 86, 87, 88, 89, 90, 924, 192, 193, 194, 195, 196, 197, 198, 199, 200, 201, 202, 203, 204, 205, 206, 207, 208, 209, 210, 211, 212, 213, 214, 216, 217, 218, 219, 220, 221, 222, 376, 256, 258, 260, 262, 264, 266, 268, 270, 272, 274, 276, 278, 280, 282, 284, 286, 288, 290, 292, 294, 296, 298, 300, 302, 73, 306, 308, 310, 313, 315, 317, 319, 321, 323, 325, 327, 330, 332, 334, 336, 338, 340, 342, 344, 346, 348, 350, 352, 354, 356, 358, 360, 362, 364, 366, 368, 370, 372, 374, 377, 379, 381, 83, 579, 386, 388, 391, 395, 401, 502, 408, 573, 544, 416, 418, 420, 423, 428, 431, 435, 437, 440, 444, 503, 453, 453, 456, 456, 459, 459, 461, 463, 465, 467, 469, 471, 473, 475, 398, 478, 480, 482, 484, 486, 488, 490, 492, 494, 498, 498, 500, 504, 506, 508, 510, 512, 514, 516, 518, 520, 522, 524, 526, 528, 530, 532, 534, 536, 538, 540, 542, 546, 548, 550, 552, 554, 556, 558, 560, 562, 571, 11390, 11391, 577, 582, 584, 586, 588, 590, 11375, 11373, 11376, 385, 390, 393, 394, 399, 400, 42923, 403, 42924, 404, 42893, 42922, 407, 406, 42926, 11362, 42925, 412, 11374, 413, 415, 11364, 422, 42949, 425, 42929, 430, 580, 433, 434, 581, 439, 42930, 42928, 921, 880, 882, 886, 1021, 1022, 1023, 902, 904, 905, 906, 913, 914, 915, 916, 917, 918, 919, 920, 921, 922, 923, 924, 925, 926, 927, 928, 929, 931, 931, 932, 933, 934, 935, 936, 937, 938, 939, 908, 910, 911, 914, 920, 934, 928, 975, 984, 986, 988, 990, 992, 994, 996, 998, 1000, 1002, 1004, 1006, 922, 929, 1017, 895, 917, 1015, 1018, 1040, 1041, 1042, 1043, 1044, 1045, 1046, 1047, 1048, 1049, 1050, 1051, 1052, 1053, 1054, 1055, 1056, 1057, 1058, 1059, 1060, 1061, 1062, 1063, 1064, 1065, 1066, 1067, 1068, 1069, 1070, 1071, 1024, 1025, 1026, 1027, 1028, 1029, 1030, 1031, 1032, 1033, 1034, 1035, 1036, 1037, 1038, 1039, 1120, 1122, 1124, 1126, 1128, 1130, 1132, 1134, 1136, 1138, 1140, 1142, 1144, 1146, 1148, 1150, 1152, 1162, 1164, 1166, 1168, 1170, 1172, 1174, 1176, 1178, 1180, 1182, 1184, 1186, 1188, 1190, 1192, 1194, 1196, 1198, 1200, 1202, 1204, 1206, 1208, 1210, 1212, 1214, 1217, 1219, 1221, 1223, 1225, 1227, 1229, 1216, 1232, 1234, 1236, 1238, 1240, 1242, 1244, 1246, 1248, 1250, 1252, 1254, 1256, 1258, 1260, 1262, 1264, 1266, 1268, 1270, 1272, 1274, 1276, 1278, 1280, 1282, 1284, 1286, 1288, 1290, 1292, 1294, 1296, 1298, 1300, 1302, 1304, 1306, 1308, 1310, 1312, 1314, 1316, 1318, 1320, 1322, 1324, 1326, 1329, 1330, 1331, 1332, 1333, 1334, 1335, 1336, 1337, 1338, 1339, 1340, 1341, 1342, 1343, 1344, 1345, 1346, 1347, 1348, 1349, 1350, 1351, 1352, 1353, 1354, 1355, 1356, 1357, 1358, 1359, 1360, 1361, 1362, 1363, 1364, 1365, 1366, 5104, 5105, 5106, 5107, 5108, 5109, 1042, 1044, 1054, 1057, 1058, 1058, 1066, 1122, 42570, 42877, 11363, 42950, 7680, 7682, 7684, 7686, 7688, 7690, 7692, 7694, 7696, 7698, 7700, 7702, 7704, 7706, 7708, 7710, 7712, 7714, 7716, 7718, 7720, 7722, 7724, 7726, 7728, 7730, 7732, 7734, 7736, 7738, 7740, 7742, 7744, 7746, 7748, 7750, 7752, 7754, 7756, 7758, 7760, 7762, 7764, 7766, 7768, 7770, 7772, 7774, 7776, 7778, 7780, 7782, 7784, 7786, 7788, 7790, 7792, 7794, 7796, 7798, 7800, 7802, 7804, 7806, 7808, 7810, 7812, 7814, 7816, 7818, 7820, 7822, 7824, 7826, 7828, 7776, 7840, 7842, 7844, 7846, 7848, 7850, 7852, 7854, 7856, 7858, 7860, 7862, 7864, 7866, 7868, 7870, 7872, 7874, 7876, 7878, 7880, 7882, 7884, 7886, 7888, 7890, 7892, 7894, 7896, 7898, 7900, 7902, 7904, 7906, 7908, 7910, 7912, 7914, 7916, 7918, 7920, 7922, 7924, 7926, 7928, 7930, 7932, 7934, 7944, 7945, 7946, 7947, 7948, 7949, 7950, 7951, 7960, 7961, 7962, 7963, 7964, 7965, 7976, 7977, 7978, 7979, 7980, 7981, 7982, 7983, 7992, 7993, 7994, 7995, 7996, 7997, 7998, 7999, 8008, 8009, 8010, 8011, 8012, 8013, 8025, 8027, 8029, 8031, 8040, 8041, 8042, 8043, 8044, 8045, 8046, 8047, 8122, 8123, 8136, 8137, 8138, 8139, 8154, 8155, 8184, 8185, 8170, 8171, 8186, 8187, 8072, 8073, 8074, 8075, 8076, 8077, 8078, 8079, 8088, 8089, 8090, 8091, 8092, 8093, 8094, 8095, 8104, 8105, 8106, 8107, 8108, 8109, 8110, 8111, 8120, 8121, 8124, 921, 8140, 8152, 8153, 8168, 8169, 8172, 8188, 8498, 8544, 8545, 8546, 8547, 8548, 8549, 8550, 8551, 8552, 8553, 8554, 8555, 8556, 8557, 8558, 8559, 8579, 9398, 9399, 9400, 9401, 9402, 9403, 9404, 9405, 9406, 9407, 9408, 9409, 9410, 9411, 9412, 9413, 9414, 9415, 9416, 9417, 9418, 9419, 9420, 9421, 9422, 9423, 11264, 11265, 11266, 11267, 11268, 11269, 11270, 11271, 11272, 11273, 11274, 11275, 11276, 11277, 11278, 11279, 11280, 11281, 11282, 11283, 11284, 11285, 11286, 11287, 11288, 11289, 11290, 11291, 11292, 11293, 11294, 11295, 11296, 11297, 11298, 11299, 11300, 11301, 11302, 11303, 11304, 11305, 11306, 11307, 11308, 11309, 11310, 11311, 11360, 570, 574, 11367, 11369, 11371, 11378, 11381, 11392, 11394, 11396, 11398, 11400, 11402, 11404, 11406, 11408, 11410, 11412, 11414, 11416, 11418, 11420, 11422, 11424, 11426, 11428, 11430, 11432, 11434, 11436, 11438, 11440, 11442, 11444, 11446, 11448, 11450, 11452, 11454, 11456, 11458, 11460, 11462, 11464, 11466, 11468, 11470, 11472, 11474, 11476, 11478, 11480, 11482, 11484, 11486, 11488, 11490, 11499, 11501, 11506, 4256, 4257, 4258, 4259, 4260, 4261, 4262, 4263, 4264, 4265, 4266, 4267, 4268, 4269, 4270, 4271, 4272, 4273, 4274, 4275, 4276, 4277, 4278, 4279, 4280, 4281, 4282, 4283, 4284, 4285, 4286, 4287, 4288, 4289, 4290, 4291, 4292, 4293, 4295, 4301, 42560, 42562, 42564, 42566, 42568, 42570, 42572, 42574, 42576, 42578, 42580, 42582, 42584, 42586, 42588, 42590, 42592, 42594, 42596, 42598, 42600, 42602, 42604, 42624, 42626, 42628, 42630, 42632, 42634, 42636, 42638, 42640, 42642, 42644, 42646, 42648, 42650, 42786, 42788, 42790, 42792, 42794, 42796, 42798, 42802, 42804, 42806, 42808, 42810, 42812, 42814, 42816, 42818, 42820, 42822, 42824, 42826, 42828, 42830, 42832, 42834, 42836, 42838, 42840, 42842, 42844, 42846, 42848, 42850, 42852, 42854, 42856, 42858, 42860, 42862, 42873, 42875, 42878, 42880, 42882, 42884, 42886, 42891, 42896, 42898, 42948, 42902, 42904, 42906, 42908, 42910, 42912, 42914, 42916, 42918, 42920, 42932, 42934, 42936, 42938, 42940, 42942, 42944, 42946, 42951, 42953, 42960, 42966, 42968, 42997, 42931, 5024, 5025, 5026, 5027, 5028, 5029, 5030, 5031, 5032, 5033, 5034, 5035, 5036, 5037, 5038, 5039, 5040, 5041, 5042, 5043, 5044, 5045, 5046, 5047, 5048, 5049, 5050, 5051, 5052, 5053, 5054, 5055, 5056, 5057, 5058, 5059, 5060, 5061, 5062, 5063, 5064, 5065, 5066, 5067, 5068, 5069, 5070, 5071, 5072, 5073, 5074, 5075, 5076, 5077, 5078, 5079, 5080, 5081, 5082, 5083, 5084, 5085, 5086, 5087, 5088, 5089, 5090, 5091, 5092, 5093, 5094, 5095, 5096, 5097, 5098, 5099, 5100, 5101, 5102, 5103, 65313, 65314, 65315, 65316, 65317, 65318, 65319, 65320, 65321, 65322, 65323, 65324, 65325, 65326, 65327, 65328, 65329, 65330, 65331, 65332, 65333, 65334, 65335, 65336, 65337, 65338, 66560, 66561, 66562, 66563, 66564, 66565, 66566, 66567, 66568, 66569, 66570, 66571, 66572, 66573, 66574, 66575, 66576, 66577, 66578, 66579, 66580, 66581, 66582, 66583, 66584, 66585, 66586, 66587, 66588, 66589, 66590, 66591, 66592, 66593, 66594, 66595, 66596, 66597, 66598, 66599, 66736, 66737, 66738, 66739, 66740, 66741, 66742, 66743, 66744, 66745, 66746, 66747, 66748, 66749, 66750, 66751, 66752, 66753, 66754, 66755, 66756, 66757, 66758, 66759, 66760, 66761, 66762, 66763, 66764, 66765, 66766, 66767, 66768, 66769, 66770, 66771, 66928, 66929, 66930, 66931, 66932, 66933, 66934, 66935, 66936, 66937, 66938, 66940, 66941, 66942, 66943, 66944, 66945, 66946, 66947, 66948, 66949, 66950, 66951, 66952, 66953, 66954, 66956, 66957, 66958, 66959, 66960, 66961, 66962, 66964, 66965, 68736, 68737, 68738, 68739, 68740, 68741, 68742, 68743, 68744, 68745, 68746, 68747, 68748, 68749, 68750, 68751, 68752, 68753, 68754, 68755, 68756, 68757, 68758, 68759, 68760, 68761, 68762, 68763, 68764, 68765, 68766, 68767, 68768, 68769, 68770, 68771, 68772, 68773, 68774, 68775, 68776, 68777, 68778, 68779, 68780, 68781, 68782, 68783, 68784, 68785, 68786, 71840, 71841, 71842, 71843, 71844, 71845, 71846, 71847, 71848, 71849, 71850, 71851, 71852, 71853, 71854, 71855, 71856, 71857, 71858, 71859, 71860, 71861, 71862, 71863, 71864, 71865, 71866, 71867, 71868, 71869, 71870, 71871, 93760, 93761, 93762, 93763, 93764, 93765, 93766, 93767, 93768, 93769, 93770, 93771, 93772, 93773, 93774, 93775, 93776, 93777, 93778, 93779, 93780, 93781, 93782, 93783, 93784, 93785, 93786, 93787, 93788, 93789, 93790, 93791, 125184, 125185, 125186, 125187, 125188, 125189, 125190, 125191, 125192, 125193, 125194, 125195, 125196, 125197, 125198, 125199, 125200, 125201, 125202, 125203, 125204, 125205, 125206, 125207, 125208, 125209, 125210, 125211, 125212, 125213, 125214, 125215, 125216, 125217>>

\* those it changes into more than one character
TitleLong == (223 :> <<83, 115>>) @@ (329 :> <<700, 78>>) @@ (496 :> <<74, 780>>) @@ (912 :> <<921, 776, 769>>) @@ (944 :> <<933, 776, 769>>) @@ (1415 :> <<1333, 1410>>) @@ (7830 :> <<72, 817>>) @@ (7831 :> <<84, 776>>) @@ (7832 :> <<87, 778>>) @@ (7833 :> <<89, 778>>) @@ (7834 :> <<65, 702>>) @@ (8016 :> <<933, 787>>) @@ (8018 :> <<933, 787, 768>>) @@ (8020 :> <<933, 787, 769>>) @@ (8022 :> <<933, 787, 834>>) @@ (8114 :> <<8122, 837>>) @@ (8116 :> <<902, 837>>) @@ (8118 :> <<913, 834>>) @@ (8119 :> <<913, 834, 837>>) @@ (8130 :> <<8138, 837>>) @@ (8132 :> <<905, 837>>) @@ (8134 :> <<919, 834>>) @@ (8135 :> <<919, 834, 837>>) @@ (8146 :> <<921, 776, 768>>) @@ (8147 :> <<921, 776, 769>>) @@ (8150 :> <<921, 834>>) @@ (8151 :> <<921, 776, 834>>) @@ (8162 :> <<933, 776, 768>>) @@ (8163 :> <<933, 776, 769>>) @@ (8164 :> <<929, 787>>) @@ (8166 :> <<933, 834>>) @@ (8167 :> <<933, 776, 834>>) @@ (8178 :> <<8186, 837>>) @@ (8180 :> <<911, 837>>) @@ (8182 :> <<937, 834>>) @@ (8183 :> <<937, 834, 837>>) @@ (64256 :> <<70, 102>>) @@ (64257 :> <<70, 105>>) @@ (64258 :> <<70, 108>>) @@ (64259 :> <<70, 102, 105>>) @@ (64260 :> <<70, 102, 108>>) @@ (64261 :> <<83, 116>>) @@ (64262 :> <<83, 116>>) @@ (64275 :> <<1348, 1398>>) @@ (64276 :> <<1348, 1381>>) @@ (64277 :> <<1348, 1387>>) @@ (64278 :> <<1358, 1398>>) @@ (64279 :> <<1348, 1389>>)

\* the cased characters, as ranges of codes
CasedRanges == <<<<65, 90>>, <<97, 122>>, <<170, 170>>, <<181, 181>>, <<186, 186>>, <<192, 214>>, <<216, 246>>, <<248, 442>>, <<444, 447>>, <<452, 659>>, <<661, 696>>, <<704, 705>>, <<736, 740>>, <<837, 837>>, <<880, 883>>, <<886, 887>>, <<890, 893>>, <<895, 895>>, <<902, 902>>, <<904, 906>>, <<908, 908>>, <<910, 929>>, <<931, 1013>>, <<1015, 1153>>, <<1162, 1327>>, <<1329, 1366>>, <<1376, 1416>>, <<4256, 4293>>, <<4295, 4295>>, <<4301, 4301>>, <<4304, 4346>>, <<4349, 4351>>, <<5024, 5109>>, <<5112, 5117>>, <<7296, 7304>>, <<7312, 7354>>, <<7357, 7359>>, <<7424, 7615>>, <<7680, 7957>>, <<7960, 7965>>, <<7968, 8005>>, <<8008, 8013>>, <<8016, 8023>>, <<8025, 8025>>, <<8027, 8027>>, <<8029, 8029>>, <<8031, 8061>>, <<8064, 8116>>, <<8118, 8124>>, <<8126, 8126>>, <<8130, 8132>>, <<8134, 8140>>, <<8144, 8147>>, <<8150, 8155>>, <<8160, 8172>>, <<8178, 8180>>, <<8182, 8188>>, <<8305, 8305>>, <<8319, 8319>>, <<8336, 8348>>, <<8450, 8450>>, <<8455, 8455>>, <<8458, 8467>>, <<8469, 8469>>, <<8473, 8477>>, <<8484, 8484>>, <<8486, 8486>>, <<8488, 8488>>, <<8490, 8493>>, <<8495, 8500>>, <<8505, 8505>>, <<8508, 8511>>, <<8517, 8521>>, <<8526, 8526>>, <<8544, 8575>>, <<8579, 8580>>, <<9398, 9449>>, <<11264, 11492>>, <<11499, 11502>>, <<11506, 11507>>, <<11520, 11557>>, <<11559, 11559>>, <<11565, 11565>>, <<42560, 42605>>, <<42624, 42653>>, <<42786, 42887>>, <<42891, 42894>>, <<42896, 42954>>, <<42960, 42961>>, <<42963, 42963>>, <<42965, 42969>>, <<42997, 42998>>, <<43000, 43002>>, <<43824, 43866>>, <<43868, 43880>>, <<43888, 43967>>, <<64256, 64262>>, <<64275, 64279>>, <<65313, 65338>>, <<65345, 65370>>, <<66560, 66639>>, <<66736, 66771>>, <<66776, 66811>>, <<66928, 66938>>, <<66940, 66954>>, <<66956, 66962>>, <<66964, 66965>>, <<66967, 66977>>, <<66979, 66993>>, <<66995, 67001>>, <<67003, 67004>>, <<67456, 67456>>, <<67459, 67461>>, <<67463, 67504>>, <<67506, 67514>>, <<68736, 68786>>, <<68800, 68850>>, <<71840, 71903>>, <<93760, 93823>>, <<119808, 119892>>, <<119894, 119964>>, <<119966, 119967>>, <<119970, 119970>>, <<119973, 119974>>, <<119977, 119980>>, <<119982, 119993>>, <<119995, 119995>>, <<119997, 120003>>, <<120005, 120069>>, <<120071, 120074>>, <<120077, 120084>>, <<120086, 120092>>, <<120094, 120121>>, <<120123, 120126>>, <<120128, 120132>>, <<120134, 120134>>, <<120138, 120144>>, <<120146, 120485>>, <<120488, 120512>>, <<120514, 120538>>, <<120540, 120570>>, <<120572, 120596>>, <<120598, 120628>>, <<120630, 120654>>, <<120656, 120686>>, <<120688, 120712>>, <<120714, 120744>>, <<120746, 120770>>, <<120772, 120779>>, <<122624, 122633>>, <<122635, 122654>>, <<125184, 125251>>, <<127280, 127305>>, <<127312, 127337>>, <<127344, 127369>>>>

\* the characters that are not looked at around a capital sigma
CaseIgnorableRanges == <<<<39, 39>>, <<46, 46>>, <<58, 58>>, <<94, 94>>, <<96, 96>>, <<168, 168>>, <<173, 173>>, <<175, 175>>, <<180, 180>>, <<183, 184>>, <<688, 879>>, <<884, 885>>, <<890, 890>>, <<900, 901>>, <<903, 903>>, <<1155, 1161>>, <<1369, 1369>>, <<1375, 1375>>, <<1425, 1469>>, <<1471, 1471>>, <<1473, 1474>>, <<1476, 1477>>, <<1479, 1479>>, <<1524, 1524>>, <<1536, 1541>>, <<1552, 1562>>, <<1564, 1564>>, <<1600, 1600>>, <<1611, 1631>>, <<1648, 1648>>, <<1750, 1757>>, <<1759, 1768>>, <<1770, 1773>>, <<1807, 1807>>, <<1809, 1809>>, <<1840, 1866>>, <<1958, 1968>>, <<2027, 2037>>, <<2042, 2042>>, <<2045, 2045>>, <<2070, 2093>>, <<2137, 2139>>, <<2184, 2184>>, <<2192, 2193>>, <<2200, 2207>>, <<2249, 2306>>, <<2362, 2362>>, <<2364, 2364>>, <<2369, 2376>>, <<2381, 2381>>, <<2385, 2391>>, <<2402, 2403>>, <<2417, 2417>>, <<2433, 2433>>, <<2492, 2492>>, <<2497, 2500>>, <<2509, 2509>>, <<2530, 2531>>, <<2558, 2558>>, <<2561, 2562>>, <<2620, 2620>>, <<2625, 2626>>, <<2631, 2632>>, <<2635, 2637>>, <<2641, 2641>>, <<2672, 2673>>, <<2677, 2677>>, <<2689, 2690>>, <<2748, 2748>>, <<2753, 2757>>, <<2759, 2760>>, <<2765, 2765>>, <<2786, 2787>>, <<2810, 2815>>, <<2817, 2817>>, <<2876, 2876>>, <<2879, 2879>>, <<2881, 2884>>, <<2893, 2893>>, <<2901, 2902>>, <<2914, 2915>>, <<2946, 2946>>, <<3008, 3008>>, <<3021, 3021>>, <<3072, 3072>>, <<3076, 3076>>, <<3132, 3132>>, <<3134, 3136>>, <<3142, 3144>>, <<3146, 3149>>, <<3157, 3158>>, <<3170, 3171>>, <<3201, 3201>>, <<3260, 3260>>, <<3263, 3263>>, <<3270, 3270>>, <<3276, 3277>>, <<3298, 3299>>, <<3328, 3329>>, <<3387, 3388>>, <<3393, 3396>>, <<3405, 3405>>, <<3426, 3427>>, <<3457, 3457>>, <<3530, 3530>>, <<3538, 3540>>, <<3542, 3542>>, <<3633, 3633>>, <<3636, 3642>>, <<3654, 3662>>, <<3761, 3761>>, <<3764, 3772>>, <<3782, 3782>>, <<3784, 3789>>, <<3864, 3865>>, <<3893, 3893>>, <<3895, 3895>>, <<3897, 3897>>, <<3953, 3966>>, <<3968, 3972>>, <<3974, 3975>>, <<3981, 3991>>, <<3993, 4028>>, <<4038, 4038>>, <<4141, 4144>>, <<4146, 4151>>, <<4153, 4154>>, <<4157, 4158>>, <<4184, 4185>>, <<4190, 4192>>, <<4209, 4212>>, <<4226, 4226>>, <<4229, 4230>>, <<4237, 4237>>, <<4253, 4253>>, <<4348, 4348>>, <<4957, 4959>>, <<5906, 5908>>, <<5938, 5939>>, <<5970, 5971>>, <<6002, 6003>>, <<6068, 6069>>, <<6071, 6077>>, <<6086, 6086>>, <<6089, 6099>>, <<6103, 6103>>, <<6109, 6109>>, <<6155, 6159>>, <<6211, 6211>>, <<6277, 6278>>, <<6313, 6313>>, <<6432, 6434>>, <<6439, 6440>>, <<6450, 6450>>, <<6457, 6459>>, <<6679, 6680>>, <<6683, 6683>>, <<6742, 6742>>, <<6744, 6750>>, <<6752, 6752>>, <<6754, 6754>>, <<6757, 6764>>, <<6771, 6780>>, <<6783, 6783>>, <<6823, 6823>>, <<6832, 6862>>, <<6912, 6915>>, <<6964, 6964>>, <<6966, 6970>>, <<6972, 6972>>, <<6978, 6978>>, <<7019, 7027>>, <<7040, 7041>>, <<7074, 7077>>, <<7080, 7081>>, <<7083, 7085>>, <<7142, 7142>>, <<7144, 7145>>, <<7149, 7149>>, <<7151, 7153>>, <<7212, 7219>>, <<7222, 7223>>, <<7288, 7293>>, <<7376, 7378>>, <<7380, 7392>>, <<7394, 7400>>, <<7405, 7405>>, <<7412, 7412>>, <<7416, 7417>>, <<7468, 7530>>, <<7544, 7544>>, <<7579, 7679>>, <<8125, 8125>>, <<8127, 8129>>, <<8141, 8143>>, <<8157, 8159>>, <<8173, 8175>>, <<8189, 8190>>, <<8203, 8207>>, <<8216, 8217>>, <<8228, 8228>>, <<8231, 8231>>, <<8234, 8238>>, <<8288, 8292>>, <<8294, 8303>>, <<8305, 8305>>, <<8319, 8319>>, <<8336, 8348>>, <<8400, 8432>>, <<11388, 11389>>, <<11503, 11505>>, <<11631, 11631>>, <<11647, 11647>>, <<11744, 11775>>, <<11823, 11823>>, <<12293, 12293>>, <<12330, 12333>>, <<12337, 12341>>, <<12347, 12347>>, <<12441, 12446>>, <<12540, 12542>>, <<40981, 40981>>, <<42232, 42237>>, <<42508, 42508>>, <<42607, 42610>>, <<42612, 42621>>, <<42623, 42623>>, <<42652, 42655>>, <<42736, 42737>>, <<42752, 42785>>, <<42864, 42864>>, <<42888, 42890>>, <<42994, 42996>>, <<43000, 43001>>, <<43010, 43010>>, <<43014, 43014>>, <<43019, 43019>>, <<43045, 43046>>, <<43052, 43052>>, <<43204, 43205>>, <<43232, 43249>>, <<43263, 43263>>, <<43302, 43309>>, <<43335, 43345>>, <<43392, 43394>>, <<43443, 43443>>, <<43446, 43449>>, <<43452, 43453>>, <<43471, 43471>>, <<43493, 43494>>, <<43561, 43566>>, <<43569, 43570>>, <<43573, 43574>>, <<43587, 43587>>, <<43596, 43596>>, <<43632, 43632>>, <<43644, 43644>>, <<43696, 43696>>, <<43698, 43700>>, <<43703, 43704>>, <<43710, 43711>>, <<43713, 43713>>, <<43741, 43741>>, <<43756, 43757>>, <<43763, 43764>>, <<43766, 43766>>, <<43867, 43871>>, <<43881, 43883>>, <<44005, 44005>>, <<44008, 44008>>, <<44013, 44013>>, <<64286, 64286>>, <<64434, 64450>>, <<65024, 65039>>, <<65043, 65043>>, <<65056, 65071>>, <<65106, 65106>>, <<65109, 65109>>, <<65279, 65279>>, <<65287, 65287>>, <<65294, 65294>>, <<65306, 65306>>, <<65342, 65342>>, <<65344, 65344>>, <<65392, 65392>>, <<65438, 65439>>, <<65507, 65507>>, <<65529, 65531>>, <<66045, 66045>>, <<66272, 66272>>, <<66422, 66426>>, <<67456, 67461>>, <<67463, 67504>>, <<67506, 67514>>, <<68097, 68099>>, <<68101, 68102>>, <<68108, 68111>>, <<68152, 68154>>, <<68159, 68159>>, <<68325, 68326>>, <<68900, 68903>>, <<69291, 69292>>, <<69446, 69456>>, <<69506, 69509>>, <<69633, 69633>>, <<69688, 69702>>, <<69744, 69744>>, <<69747, 69748>>, <<69759, 69761>>, <<69811, 69814>>, <<69817, 69818>>, <<69821, 69821>>, <<69826, 69826>>, <<69837, 69837>>, <<69888, 69890>>, <<69927, 69931>>, <<69933, 69940>>, <<70003, 70003>>, <<70016, 70017>>, <<70070, 70078>>, <<70089, 70092>>, <<70095, 70095>>, <<70191, 70193>>, <<70196, 70196>>, <<70198, 70199>>, <<70206, 70206>>, <<70367, 70367>>, <<70371, 70378>>, <<70400, 70401>>, <<70459, 70460>>, <<70464, 70464>>, <<70502, 70508>>, <<70512, 70516>>, <<70712, 70719>>, <<70722, 70724>>, <<70726, 70726>>, <<70750, 70750>>, <<70835, 70840>>, <<70842, 70842>>, <<70847, 70848>>, <<70850, 70851>>, <<71090, 71093>>, <<71100, 71101>>, <<71103, 71104>>, <<71132, 71133>>, <<71219, 71226>>, <<71229, 71229>>, <<71231, 71232>>, <<71339, 71339>>, <<71341, 71341>>, <<71344, 71349>>, <<71351, 71351>>, <<71453, 71455>>, <<71458, 71461>>, <<71463, 71467>>, <<71727, 71735>>, <<71737, 71738>>, <<71995, 71996>>, <<71998, 71998>>, <<72003, 72003>>, <<72148, 72151>>, <<72154, 72155>>, <<72160, 72160>>, <<72193, 72202>>, <<72243, 72248>>, <<72251, 72254>>, <<72263, 72263>>, <<72273, 72278>>, <<72281, 72283>>, <<72330, 72342>>, <<72344, 72345>>, <<72752, 72758>>, <<72760, 72765>>, <<72767, 72767>>, <<72850, 72871>>, <<72874, 72880>>, <<72882, 72883>>, <<72885, 72886>>, <<73009, 73014>>, <<73018, 73018>>, <<73020, 73021>>, <<73023, 73029>>, <<73031, 73031>>, <<73104, 73105>>, <<73109, 73109>>, <<73111, 73111>>, <<73459, 73460>>, <<78896, 78904>>, <<92912, 92916>>, <<92976, 92982>>, <<92992, 92995>>, <<94031, 94031>>, <<94095, 94111>>, <<94176, 94177>>, <<94179, 94180>>, <<110576, 110579>>, <<110581, 110587>>, <<110589, 110590>>, <<113821, 113822>>, <<113824, 113827>>, <<118528, 118573>>, <<118576, 118598>>, <<119143, 119145>>, <<119155, 119170>>, <<119173, 119179>>, <<119210, 119213>>, <<119362, 119364>>, <<121344, 121398>>, <<121403, 121452>>, <<121461, 121461>>, <<121476, 121476>>, <<121499, 121503>>, <<121505, 121519>>, <<122880, 122886>>, <<122888, 122904>>, <<122907, 122913>>, <<122915, 122916>>, <<122918, 122922>>, <<123184, 123197>>, <<123566, 123566>>, <<123628, 123631>>, <<125136, 125142>>, <<125252, 125259>>, <<127995, 127999>>, <<917505, 917505>>, <<917536, 917631>>, <<917760, 917999>>>>

\* the characters for which str.isprintable() is false
NonPrintableRanges == <<<<0, 31>>, <<127, 160>>, <<173, 173>>, <<888, 889>>, <<896, 899>>, <<907, 907>>, <<909, 909>>, <<930, 930>>, <<1328, 1328>>, <<1367, 1368>>, <<1419, 1420>>, <<1424, 1424>>, <<1480, 1487>>, <<1515, 1518>>, <<1525, 1541>>, <<1564, 1564>>, <<1757, 1757>>, <<1806, 1807>>, <<1867, 1868>>, <<1970, 1983>>, <<2043, 2044>>, <<2094, 2095>>, <<2111, 2111>>, <<2140, 2141>>, <<2143, 2143>>, <<2155, 2159>>, <<2191, 2199>>, <<2274, 2274>>, <<2436, 2436>>, <<2445, 2446>>, <<2449, 2450>>, <<2473, 2473>>, <<2481, 2481>>, <<2483, 2485>>, <<2490, 2491>>, <<2501, 2502>>, <<2505, 2506>>, <<2511, 2518>>, <<2520, 2523>>, <<2526, 2526>>, <<2532, 2533>>, <<2559, 2560>>, <<2564, 2564>>, <<2571, 2574>>, <<2577, 2578>>, <<2601, 2601>>, <<2609, 2609>>, <<2612, 2612>>, <<2615, 2615>>, <<2618, 2619>>, <<2621, 2621>>, <<2627, 2630>>, <<2633, 2634>>, <<2638, 2640>>, <<2642, 2648>>, <<2653, 2653>>, <<2655, 2661>>, <<2679, 2688>>, <<2692, 2692>>, <<2702, 2702>>, <<2706, 2706>>, <<2729, 2729>>, <<2737, 2737>>, <<2740, 2740>>, <<2746, 2747>>, <<2758, 2758>>, <<2762, 2762>>, <<2766, 2767>>, <<2769, 2783>>, <<2788, 2789>>, <<2802, 2808>>, <<2816, 2816>>, <<2820, 2820>>, <<2829, 2830>>, <<2833, 2834>>, <<2857, 2857>>, <<2865, 2865>>, <<2868, 2868>>, <<2874, 2875>>, <<2885, 2886>>, <<2889, 2890>>, <<2894, 2900>>, <<2904, 2907>>, <<2910, 2910>>, <<2916, 2917>>, <<2936, 2945>>, <<2948, 2948>>, <<2955, 2957>>, <<2961, 2961>>, <<2966, 2968>>, <<2971, 2971>>, <<2973, 2973>>, <<2976, 2978>>, <<2981, 2983>>, <<2987, 2989>>, <<3002, 3005>>, <<3011, 3013>>, <<3017, 3017>>, <<3022, 3023>>, <<3025, 3030>>, <<3032, 3045>>, <<3067, 3071>>, <<3085, 3085>>, <<3089, 3089>>, <<3113, 3113>>, <<3130, 3131>>, <<3141, 3141>>, <<3145, 3145>>, <<3150, 3156>>, <<3159, 3159>>, <<3163, 3164>>, <<3166, 3167>>, <<3172, 3173>>, <<3184, 3190>>, <<3213, 3213>>, <<3217, 3217>>, <<3241, 3241>>, <<3252, 3252>>, <<3258, 3259>>, <<3269, 3269>>, <<3273, 3273>>, <<3278, 3284>>, <<3287, 3292>>, <<3295, 3295>>, <<3300, 3301>>, <<3312, 3312>>, <<3315, 3327>>, <<3341, 3341>>, <<3345, 3345>>, <<3397, 3397>>, <<3401, 3401>>, <<3408, 3411>>, <<3428, 3429>>, <<3456, 3456>>, <<3460, 3460>>, <<3479, 3481>>, <<3506, 3506>>, <<3516, 3516>>, <<3518, 3519>>, <<3527, 3529>>, <<3531, 3534>>, <<3541, 3541>>, <<3543, 3543>>, <<3552, 3557>>, <<3568, 3569>>, <<3573, 3584>>, <<3643, 3646>>, <<3676, 3712>>, <<3715, 3715>>, <<3717, 3717>>, <<3723, 3723>>, <<3748, 3748>>, <<3750, 3750>>, <<3774, 3775>>, <<3781, 3781>>, <<3783, 3783>>, <<3790, 3791>>, <<3802, 3803>>, <<3808, 3839>>, <<3912, 3912>>, <<3949, 3952>>, <<3992, 3992>>, <<4029, 4029>>, <<4045, 4045>>, <<4059, 4095>>, <<4294, 4294>>, <<4296, 4300>>, <<4302, 4303>>, <<4681, 4681>>, <<4686, 4687>>, <<4695, 4695>>, <<4697, 4697>>, <<4702, 4703>>, <<4745, 4745>>, <<4750, 4751>>, <<4785, 4785>>, <<4790, 4791>>, <<4799, 4799>>, <<4801, 4801>>, <<4806, 4807>>, <<4823, 4823>>, <<4881, 4881>>, <<4886, 4887>>, <<4955, 4956>>, <<4989, 4991>>, <<5018, 5023>>, <<5110, 5111>>, <<5118, 5119>>, <<5760, 5760>>, <<5789, 5791>>, <<5881, 5887>>, <<5910, 5918>>, <<5943, 5951>>, <<5972, 5983>>, <<5997, 5997>>, <<6001, 6001>>, <<6004, 6015>>, <<6110, 6111>>, <<6122, 6127>>, <<6138, 6143>>, <<6158, 6158>>, <<6170, 6175>>, <<6265, 6271>>, <<6315, 6319>>, <<6390, 6399>>, <<6431, 6431>>, <<6444, 6447>>, <<6460, 6463>>, <<6465, 6467>>, <<6510, 6511>>, <<6517, 6527>>, <<6572, 6575>>, <<6602, 6607>>, <<6619, 6621>>, <<6684, 6685>>, <<6751, 6751>>, <<6781, 6782>>, <<6794, 6799>>, <<6810, 6815>>, <<6830, 6831>>, <<6863, 6911>>, <<6989, 6991>>, <<7039, 7039>>, <<7156, 7163>>, <<7224, 7226>>, <<7242, 7244>>, <<7305, 7311>>, <<7355, 7356>>, <<7368, 7375>>, <<7419, 7423>>, <<7958, 7959>>, <<7966, 7967>>, <<8006, 8007>>, <<8014, 8015>>, <<8024, 8024>>, <<8026, 8026>>, <<8028, 8028>>, <<8030, 8030>>, <<8062, 8063>>, <<8117, 8117>>, <<8133, 8133>>, <<8148, 8149>>, <<8156, 8156>>, <<8176, 8177>>, <<8181, 8181>>, <<8191, 8207>>, <<8232, 8239>>, <<8287, 8303>>, <<8306, 8307>>, <<8335, 8335>>, <<8349, 8351>>, <<8385, 8399>>, <<8433, 8447>>, <<8588, 8591>>, <<9255, 9279>>, <<9291, 9311>>, <<11124, 11125>>, <<11158, 11158>>, <<11508, 11512>>, <<11558, 11558>>, <<11560, 11564>>, <<11566, 11567>>, <<11624, 11630>>, <<11633, 11646>>, <<11671, 11679>>, <<11687, 11687>>, <<11695, 11695>>, <<11703, 11703>>, <<11711, 11711>>, <<11719, 11719>>, <<11727, 11727>>, <<11735, 11735>>, <<11743, 11743>>, <<11870, 11903>>, <<11930, 11930>>, <<12020, 12031>>, <<12246, 12271>>, <<12284, 12288>>, <<12352, 12352>>, <<12439, 12440>>, <<12544, 12548>>, <<12592, 12592>>, <<12687, 12687>>, <<12772, 12783>>, <<12831, 12831>>, <<42125, 42127>>, <<42183, 42191>>, <<42540, 42559>>, <<42744, 42751>>, <<42955, 42959>>, <<42962, 42962>>, <<42964, 42964>>, <<42970, 42993>>, <<43053, 43055>>, <<43066, 43071>>, <<43128, 43135>>, <<43206, 43213>>, <<43226, 43231>>, <<43348, 43358>>, <<43389, 43391>>, <<43470, 43470>>, <<43482, 43485>>, <<43519, 43519>>, <<43575, 43583>>, <<43598, 43599>>, <<43610, 43611>>, <<43715, 43738>>, <<43767, 43776>>, <<43783, 43784>>, <<43791, 43792>>, <<43799, 43807>>, <<43815, 43815>>, <<43823, 43823>>, <<43884, 43887>>, <<44014, 44015>>, <<44026, 44031>>, <<55204, 55215>>, <<55239, 55242>>, <<55292, 63743>>, <<64110, 64111>>, <<64218, 64255>>, <<64263, 64274>>, <<64280, 64284>>, <<64311, 64311>>, <<64317, 64317>>, <<64319, 64319>>, <<64322, 64322>>, <<64325, 64325>>, <<64451, 64466>>, <<64912, 64913>>, <<64968, 64974>>, <<64976, 65007>>, <<65050, 65055>>, <<65107, 65107>>, <<65127, 65127>>, <<65132, 65135>>, <<65141, 65141>>, <<65277, 65280>>, <<65471, 65473>>, <<65480, 65481>>, <<65488, 65489>>, <<65496, 65497>>, <<65501, 65503>>, <<65511, 65511>>, <<65519, 65531>>, <<65534, 65535>>, <<65548, 65548>>, <<65575, 65575>>, <<65595, 65595>>, <<65598, 65598>>, <<65614, 65615>>, <<65630, 65663>>, <<65787, 65791>>, <<65795, 65798>>, <<65844, 65846>>, <<65935, 65935>>, <<65949, 65951>>, <<65953, 65999>>, <<66046, 66175>>, <<66205, 66207>>, <<66257, 66271>>, <<66300, 66303>>, <<66340, 66348>>, <<66379, 66383>>, <<66427, 66431>>, <<66462, 66462>>, <<66500, 66503>>, <<66518, 66559>>, <<66718, 66719>>, <<66730, 66735>>, <<66772, 66775>>, <<66812, 66815>>, <<66856, 66863>>, <<66916, 66926>>, <<66939, 66939>>, <<66955, 66955>>, <<66963, 66963>>, <<66966, 66966>>, <<66978, 66978>>, <<66994, 66994>>, <<67002, 67002>>, <<67005, 67071>>, <<67383, 67391>>, <<67414, 67423>>, <<67432, 67455>>, <<67462, 67462>>, <<67505, 67505>>, <<67515, 67583>>, <<67590, 67591>>, <<67593, 67593>>, <<67638, 67638>>, <<67641, 67643>>, <<67645, 67646>>, <<67670, 67670>>, <<67743, 67750>>, <<67760, 67807>>, <<67827, 67827>>, <<67830, 67834>>, <<67868, 67870>>, <<67898, 67902>>, <<67904, 67967>>, <<68024, 68027>>, <<68048, 68049>>, <<68100, 68100>>, <<68103, 68107>>, <<68116, 68116>>, <<68120, 68120>>, <<68150, 68151>>, <<68155, 68158>>, <<68169, 68175>>, <<68185, 68191>>, <<68256, 68287>>, <<68327, 68330>>, <<68343, 68351>>, <<68406, 68408>>, <<68438, 68439>>, <<68467, 68471>>, <<68498, 68504>>, <<68509, 68520>>, <<68528, 68607>>, <<68681, 68735>>, <<68787, 68799>>, <<68851, 68857>>, <<68904, 68911>>, <<68922, 69215>>, <<69247, 69247>>, <<69290, 69290>>, <<69294, 69295>>, <<69298, 69375>>, <<69416, 69423>>, <<69466, 69487>>, <<69514, 69551>>, <<69580, 69599>>, <<69623, 69631>>, <<69710, 69713>>, <<69750, 69758>>, <<69821, 69821>>, <<69827, 69839>>, <<69865, 69871>>, <<69882, 69887>>, <<69941, 69941>>, <<69960, 69967>>, <<70007, 70015>>, <<70112, 70112>>, <<70133, 70143>>, <<70162, 70162>>, <<70207, 70271>>, <<70279, 70279>>, <<70281, 70281>>, <<70286, 70286>>, <<70302, 70302>>, <<70314, 70319>>, <<70379, 70383>>, <<70394, 70399>>, <<70404, 70404>>, <<70413, 70414>>, <<70417, 70418>>, <<70441, 70441>>, <<70449, 70449>>, <<70452, 70452>>, <<70458, 70458>>, <<70469, 70470>>, <<70473, 70474>>, <<70478, 70479>>, <<70481, 70486>>, <<70488, 70492>>, <<70500, 70501>>, <<70509, 70511>>, <<70517, 70655>>, <<70748, 70748>>, <<70754, 70783>>, <<70856, 70863>>, <<70874, 71039>>, <<71094, 71095>>, <<71134, 71167>>, <<71237, 71247>>, <<71258, 71263>>, <<71277, 71295>>, <<71354, 71359>>, <<71370, 71423>>, <<71451, 71452>>, <<71468, 71471>>, <<71495, 71679>>, <<71740, 71839>>, <<71923, 71934>>, <<71943, 71944>>, <<71946, 71947>>, <<71956, 71956>>, <<71959, 71959>>, <<71990, 71990>>, <<71993, 71994>>, <<72007, 72015>>, <<72026, 72095>>, <<72104, 72105>>, <<72152, 72153>>, <<72165, 72191>>, <<72264, 72271>>, <<72355, 72367>>, <<72441, 72703>>, <<72713, 72713>>, <<72759, 72759>>, <<72774, 72783>>, <<72813, 72815>>, <<72848, 72849>>, <<72872, 72872>>, <<72887, 72959>>, <<72967, 72967>>, <<72970, 72970>>, <<73015, 73017>>, <<73019, 73019>>, <<73022, 73022>>, <<73032, 73039>>, <<73050, 73055>>, <<73062, 73062>>, <<73065, 73065>>, <<73103, 73103>>, <<73106, 73106>>, <<73113, 73119>>, <<73130, 73439>>, <<73465, 73647>>, <<73649, 73663>>, <<73714, 73726>>, <<74650, 74751>>, <<74863, 74863>>, <<74869, 74879>>, <<75076, 77711>>, <<77811, 77823>>, <<78895, 82943>>, <<83527, 92159>>, <<92729, 92735>>, <<92767, 92767>>, <<92778, 92781>>, <<92863, 92863>>, <<92874, 92879>>, <<92910, 92911>>, <<92918, 92927>>, <<92998, 93007>>, <<93018, 93018>>, <<93026, 93026>>, <<93048, 93052>>, <<93072, 93759>>, <<93851, 93951>>, <<94027, 94030>>, <<94088, 94094>>, <<94112, 94175>>, <<94181, 94191>>, <<94194, 94207>>, <<100344, 100351>>, <<101590, 101631>>, <<101641, 110575>>, <<110580, 110580>>, <<110588, 110588>>, <<110591, 110591>>, <<110883, 110927>>, <<110931, 110947>>, <<110952, 110959>>, <<111356, 113663>>, <<113771, 113775>>, <<113789, 113791>>, <<113801, 113807>>, <<113818, 113819>>, <<113824, 118527>>, <<118574, 118575>>, <<118599, 118607>>, <<118724, 118783>>, <<119030, 119039>>, <<119079, 119080>>, <<119155, 119162>>, <<119275, 119295>>, <<119366, 119519>>, <<119540, 119551>>, <<119639, 119647>>, <<119673, 119807>>, <<119893, 119893>>, <<119965, 119965>>, <<119968, 119969>>, <<119971, 119972>>, <<119975, 119976>>, <<119981, 119981>>, <<119994, 119994>>, <<119996, 119996>>, <<120004, 120004>>, <<120070, 120070>>, <<120075, 120076>>, <<120085, 120085>>, <<120093, 120093>>, <<120122, 120122>>, <<120127, 120127>>, <<120133, 120133>>, <<120135, 120137>>, <<120145, 120145>>, <<120486, 120487>>, <<120780, 120781>>, <<121484, 121498>>, <<121504, 121504>>, <<121520, 122623>>, <<122655, 122879>>, <<122887, 122887>>, <<122905, 122906>>, <<122914, 122914>>, <<122917, 122917>>, <<122923, 123135>>, <<123181, 123183>>, <<123198, 123199>>, <<123210, 123213>>, <<123216, 123535>>, <<123567, 123583>>, <<123642, 123646>>, <<123648, 124895>>, <<124903, 124903>>, <<124908, 124908>>, <<124911, 124911>>, <<124927, 124927>>, <<125125, 125126>>, <<125143, 125183>>, <<125260, 125263>>, <<125274, 125277>>, <<125280, 126064>>, <<126133, 126208>>, <<126270, 126463>>, <<126468, 126468>>, <<126496, 126496>>, <<126499, 126499>>, <<126501, 126502>>, <<126504, 126504>>, <<126515, 126515>>, <<126520, 126520>>, <<126522, 126522>>, <<126524, 126529>>, <<126531, 126534>>, <<126536, 126536>>, <<126538, 126538>>, <<126540, 126540>>, <<126544, 126544>>, <<126547, 126547>>, <<126549, 126550>>, <<126552, 126552>>, <<126554, 126554>>, <<126556, 126556>>, <<126558, 126558>>, <<126560, 126560>>, <<126563, 126563>>, <<126565, 126566>>, <<126571, 126571>>, <<126579, 126579>>, <<126584, 126584>>, <<126589, 126589>>, <<126591, 126591>>, <<126602, 126602>>, <<126620, 126624>>, <<126628, 126628>>, <<126634, 126634>>, <<126652, 126703>>, <<126706, 126975>>, <<127020, 127023>>, <<127124, 127135>>, <<127151, 127152>>, <<127168, 127168>>, <<127184, 127184>>, <<127222, 127231>>, <<127406, 127461>>, <<127491, 127503>>, <<127548, 127551>>, <<127561, 127567>>, <<127570, 127583>>, <<127590, 127743>>, <<128728, 128732>>, <<128749, 128751>>, <<128765, 128767>>, <<128884, 128895>>, <<128985, 128991>>, <<129004, 129007>>, <<129009, 129023>>, <<129036, 129039>>, <<129096, 129103>>, <<129114, 129119>>, <<129160, 129167>>, <<129198, 129199>>, <<129202, 129279>>, <<129620, 129631>>, <<129646, 129647>>, <<129653, 129655>>, <<129661, 129663>>, <<129671, 129679>>, <<129709, 129711>>, <<129723, 129727>>, <<129734, 129743>>, <<129754, 129759>>, <<129768, 129775>>, <<129783, 129791>>, <<129939, 129939>>, <<129995, 130031>>, <<130042, 131071>>, <<173792, 173823>>, <<177977, 177983>>, <<178206, 178207>>, <<183970, 183983>>, <<191457, 194559>>, <<195102, 196607>>, <<201547, 917759>>, <<918000, 1114111>>>>

\* the zero of each run of ten decimal digits: \d of the re module, which
\* are also the digits float() and Decimal() read
DigitZeros == {48, 1632, 1776, 1984, 2406, 2534, 2662, 2790, 2918, 3046, 3174, 3302, 3430, 3558, 3664, 3792, 3872, 4160, 4240, 6112, 6160, 6470, 6608, 6784, 6800, 6992, 7088, 7232, 7248, 42528, 43216, 43264, 43472, 43504, 43600, 44016, 65296, 66720, 68912, 69734, 69872, 69942, 70096, 70384, 70736, 70864, 71248, 71360, 71472, 71904, 72016, 72784, 73040, 73120, 92768, 92864, 93008, 120782, 120792, 120802, 120812, 120822, 123200, 123632, 125264, 130032}

\* the characters of the ranges
InRanges(ranges) == UNION { ranges[j][1]..ranges[j][2] : j \in 1..Len(ranges) }

\* the characters of from mapped to those of to at the same position
CharMap(from, to) ==
    [c \in CharsOf(from) |-> to[CHOOSE j \in 1..Len(from) : from[j] = c]]

LowerMap == CharMap(LowerSource, LowerImage)

TitleMap == CharMap(TitleSource, TitleImage)

Cased == InRanges(CasedRanges)

CaseIgnorable == InRanges(CaseIgnorableRanges)

\* \d
UnicodeDigit == UNION { z..(z + 9) : z \in DigitZeros }

\* the lower case of one character, as the re module takes it under
\* re.IGNORECASE
LowerCh(c) == IF c \in DOMAIN LowerMap THEN LowerMap[c] ELSE c

\* the capital of a small ASCII letter
UpperCh(c) == IF c \in Lower THEN c - 32 ELSE c

\* the letters that re.IGNORECASE takes for the same as a lower case letter
\* of a pattern beside the letter itself: the dotless i for i, the long s
\* for s
CaseFix(c) == IF c = Ord["i"] THEN {305} ELSE IF c = Ord["s"] THEN {383} ELSE {}

\* str.isprintable() of one character
IsPrintable(c) ==
    \A j \in 1..Len(NonPrintableRanges) :
        c < NonPrintableRanges[j][1] \/ c > NonPrintableRanges[j][2]

\* the last position before i, and the first after i, that holds a
\* character which is looked at; 0 when there is none
SeenBefore(s, i) ==
    IF \A j \in 1..(i - 1) : Ch(s, j) \in CaseIgnorable THEN 0
    ELSE CHOOSE j \in 1..(i - 1) :
            /\ Ch(s, j) \notin CaseIgnorable
            /\ \A o \in (j + 1)..(i - 1) : Ch(s, o) \in CaseIgnorable

SeenAfter(s, i) ==
    IF \A j \in (i + 1)..Len(s) : Ch(s, j) \in CaseIgnorable THEN 0
    ELSE CHOOSE j \in (i + 1)..Len(s) :
            /\ Ch(s, j) \notin CaseIgnorable
            /\ \A o \in (i + 1)..(j - 1) : Ch(s, o) \in CaseIgnorable

\* the capital sigma at i ends a word: a cased character is before it and
\* none is after it
IsFinalSigma(s, i) ==
    /\ SeenBefore(s, i) # 0
    /\ Ch(s, SeenBefore(s, i)) \in Cased
    /\ SeenAfter(s, i) = 0 \/ Ch(s, SeenAfter(s, i)) \notin Cased

\* the capital sigma, and the two small ones
Sigma == 931

FinalSigma == 962

SmallSigma == 963

\* the lower case of the character at i of s
LowerAt(s, i) ==
    IF Ch(s, i) = Sigma THEN << IF IsFinalSigma(s, i) THEN FinalSigma ELSE SmallSigma >>
    ELSE IF Ch(s, i) \in DOMAIN LowerLong THEN LowerLong[Ch(s, i)]
    ELSE << LowerCh(Ch(s, i)) >>

RECURSIVE LowerRange(_, _, _)
\* the lower case of s[lo..hi], one half after the other
LowerRange(s, lo, hi) ==
    IF lo > hi THEN << >>
    ELSE IF lo = hi THEN LowerAt(s, lo)
    ELSE LowerRange(s, lo, (lo + hi) \div 2) \o LowerRange(s, (lo + hi) \div 2 + 1, hi)

\* str.lower()
StrLower(s) == LowerRange(s, 1, Len(s))

\* the title case of one character
TitleCh(c) ==
    IF c \in DOMAIN TitleLong THEN TitleLong[c]
    ELSE IF c \in DOMAIN TitleMap THEN << TitleMap[c] >> ELSE << c >>

\* the character at i as str.title() writes it: in lower case behind a cased
\* character, else in title case
TitleAt(s, i) ==
    IF i > 1 /\ Ch(s, i - 1) \in Cased THEN LowerAt(s, i) ELSE TitleCh(Ch(s, i))

RECURSIVE TitleRange(_, _, _)
TitleRange(s, lo, hi) ==
    IF lo > hi THEN << >>
    ELSE IF lo = hi THEN TitleAt(s, lo)
    ELSE TitleRange(s, lo, (lo + hi) \div 2) \o TitleRange(s, (lo + hi) \div 2 + 1, hi)

\* str.title()
Title(s) == TitleRange(s, 1, Len(s))

SetMin(S) == CHOOSE m \in S : \A o \in S : m <= o

SetMax(S) == CHOOSE m \in S : \A o \in S : o <= m

AllIn(s, set) == \A j \in 1..Len(s) : Ch(s, j) \in set

\* s[:n]
Prefix(s, n) == SubSeq(s, 1, IF Len(s) < n THEN Len(s) ELSE n)

\* s[i:], i counted from 1
Suffix(s, i) == SubSeq(s, i, Len(s))

StartsAt(s, i, lit) ==
    /\ i + Len(lit) - 1 <= Len(s)
    /\ SubSeq(s, i, i + Len(lit) - 1) = lit

\* sub in s
Contains(s, sub) == \E i \in 1..(Len(s) + 1) : StartsAt(s, i, sub)

\* s without the characters of set at its two ends
StripOf(s, set) ==
    IF AllIn(s, set) THEN << >>
    ELSE SubSeq(s, SetMin({ j \in 1..Len(s) : Ch(s, j) \notin set }),
                   SetMax({ j \in 1..Len(s) : Ch(s, j) \notin set }))

\* str.strip()
Strip(s) == StripOf(s, Space)

RECURSIVE SplitAt(_, _, _)
\* the pieces of s from position from on, cut at the positions cuts
SplitAt(s, cuts, from) ==
    LET later == { c \in cuts : c >= from }
        cut   == CHOOSE c \in later : \A o \in later : c <= o
    IN  IF later = {} THEN << SubSeq(s, from, Len(s)) >>
        ELSE << SubSeq(s, from, cut - 1) >> \o SplitAt(s, cuts, cut + 1)

\* text.split('\n'): the pieces between newlines, empty pieces included
SplitLines(s) == SplitAt(s, { j \in 1..Len(s) : Ch(s, j) = Ord["\n"] }, 1)

RECURSIVE JoinLines(_)
\* '\n'.join(lines)
JoinLines(ls) == IF ls = << >> THEN << >>
                 ELSE IF Len(ls) = 1 THEN ls[1]
                 ELSE ls[1] \o T("\n") \o JoinLines(Tail(ls))

(***************************************************************************)
(* The backtracking matcher of the re module, for patterns that are a      *)
(* concatenation of items: a character class with a quantifier, an         *)
(* alternation of literals (optional or not), a group parenthesis, or the  *)
(* end-of-string anchor.  The first way to match, in the order in which    *)
(* the interpreter tries them, is the match.                               *)
(***************************************************************************)
Cls(set, lo, hi)  == [t |-> "cls", set |-> set, neg |-> FALSE, min |-> lo, max |-> hi, lazy |-> FALSE]

NotCls(set, lo, hi) == [t |-> "cls", set |-> set, neg |-> TRUE, min |-> lo, max |-> hi, lazy |-> FALSE]

\* .*? under re.DOTALL
LazyAny == [t |-> "cls", set |-> {}, neg |-> TRUE, min |-> 0, max |-> -1, lazy |-> TRUE]

Alt(alts) == [t |-> "alt", alts |-> alts, opt |-> FALSE]

OptAlt(alts) == [t |-> "alt", alts |-> alts, opt |-> TRUE]

Lit(s) == Alt(<< s >>)

GroupOpen == [t |-> "open"]

GroupClose == [t |-> "close"]

\* $ without re.MULTILINE: the end of the string, or just before a final newline
EndAnchor == [t |-> "eos"]

NoMatch == [ok |-> FALSE, end |-> 0, marks |-> << >>]

\* the character a of a text is the character b of a pattern: under
\* re.IGNORECASE, the lower case of a is that of b or a letter taken for it
ChEq(a, b, ic) ==
    IF ic THEN LowerCh(a) \in {LowerCh(b)} \cup CaseFix(LowerCh(b)) ELSE a = b

\* the character c is one the class takes; the classes of the patterns that
\* are searched under re.IGNORECASE hold no cased character, and such a
\* class is matched as it is written
InCls(c, it, ic) == IF it.neg THEN c \notin it.set ELSE c \in it.set

LitAt(s, i, lit, ic) ==
    /\ i + Len(lit) - 1 <= Len(s)
    /\ \A j \in 1..Len(lit) : ChEq(Ch(s, i + j - 1), Ch(lit, j), ic)

\* a run of n characters, cut to the most a class takes (none when negative)
Capped(n, most) == IF most >= 0 /\ most < n THEN most ELSE n

\* how many characters from i on the class can take, at most it.max
RunLen(s, i, it, ic) ==
    Capped(SetMin({ n \in 0..(Len(s) - i + 1) :
                      i + n > Len(s) \/ ~InCls(Ch(s, i + n), it, ic) }), it.max)

RECURSIVE ReMatch(_, _, _, _, _)
RECURSIVE ReAlt(_, _, _, _, _, _)
RECURSIVE ReCls(_, _, _, _, _, _)
RECURSIVE RePick(_, _, _, _, _, _)

\* r when it is a match, else other
OrElse(r, other) == IF r.ok THEN r ELSE other

\* the match r, with the position i of a group parenthesis before its marks
Marked(r, i) == IF r.ok THEN [r EXCEPT !.marks = << i >> \o @] ELSE r

\* the alternation item k tries its alternative a, then the next ones
ReAlt(items, k, s, i, ic, a) ==
    IF a > Len(items[k].alts)
    THEN IF items[k].opt THEN ReMatch(items, k + 1, s, i, ic) ELSE NoMatch
    ELSE IF LitAt(s, i, items[k].alts[a], ic)
         THEN OrElse(ReMatch(items, k + 1, s, i + Len(items[k].alts[a]), ic),
                     ReAlt(items, k, s, i, ic, a + 1))
         ELSE ReAlt(items, k, s, i, ic, a + 1)

\* the class item k takes the largest of the counts good (the smallest,
\* when lazy), the counts with which the rest of the pattern matches
RePick(items, k, s, i, ic, good) ==
    IF good = {} THEN NoMatch
    ELSE ReMatch(items, k + 1, s,
                 i + (IF items[k].lazy THEN SetMin(good) ELSE SetMax(good)), ic)

\* the class item k, which can take run characters at i
ReCls(items, k, s, i, ic, run) ==
    IF run < items[k].min THEN NoMatch
    ELSE IF run = items[k].min THEN ReMatch(items, k + 1, s, i + run, ic)
    ELSE RePick(items, k, s, i, ic,
                { c \in items[k].min..run : ReMatch(items, k + 1, s, i + c, ic).ok })

\* items k.. matched at position i of s: [ok, end, marks], marks the
\* positions of the group parentheses passed, in order
ReMatch(items, k, s, i, ic) ==
    IF k > Len(items) THEN [ok |-> TRUE, end |-> i, marks |-> << >>]
    ELSE CASE items[k].t \in {"open", "close"} ->
                Marked(ReMatch(items, k + 1, s, i, ic), i)
           [] items[k].t = "eos" ->
                IF i = Len(s) + 1 \/ (i = Len(s) /\ Ch(s, i) = Ord["\n"])
                THEN ReMatch(items, k + 1, s, i, ic) ELSE NoMatch
           [] items[k].t = "cls" -> ReCls(items, k, s, i, ic, RunLen(s, i, items[k], ic))
           [] items[k].t = "alt" -> ReAlt(items, k, s, i, ic, 1)

NoSearchMatch == [ok |-> FALSE, start |-> 0, end |-> 0, marks |-> << >>]

\* the match r that starts at position first
Found(first, r) == [ok |-> TRUE, start |-> first, end |-> r.end, marks |-> r.marks]

\* the match at the first of the start positions starts
FirstOf(items, s, ic, starts) ==
    IF starts = {} THEN NoSearchMatch
    ELSE Found(SetMin(starts), ReMatch(items, 1, s, SetMin(starts), ic))

\* re.search from position i on: [ok, start, end, marks] of the leftmost match
ReSearchFrom(items, s, i, ic) ==
    FirstOf(items, s, ic, { j \in i..(Len(s) + 1) : ReMatch(items, 1, s, j, ic).ok })

ReSearch(items, s, ic) == ReSearchFrom(items, s, 1, ic)

\* group g of a match (g counted from 1)
Group(s, m, g) == SubSeq(s, m.marks[2 * g - 1], m.marks[2 * g] - 1)

RECURSIVE NextMatches(_, _, _)
RECURSIVE MatchesFrom(_, _, _)

\* the match of tab at position first, then the matches after it
MatchesFrom(tab, n, first) ==
    << Found(first, tab[first]) >>
    \o NextMatches(tab, n, IF tab[first].end = first THEN first + 1 ELSE tab[first].end)

\* the matches of tab, a match or none per start position, read left to
\* right from position i on, none overlapping
NextMatches(tab, n, i) ==
    IF \A j \in i..n : ~tab[j].ok THEN << >>
    ELSE MatchesFrom(tab, n, SetMin({ j \in i..n : tab[j].ok }))

\* re.findall
ReFindAll(items, s, ic) ==
    NextMatches([j \in 1..(Len(s) + 1) |-> ReMatch(items, 1, s, j, ic)], Len(s) + 1, 1)

RECURSIVE CutMatches(_, _, _)
\* s from position i on, without the matches ms
CutMatches(s, ms, i) ==
    IF ms = << >> THEN Suffix(s, i)
    ELSE SubSeq(s, i, ms[1].start - 1) \o CutMatches(s, Tail(ms), ms[1].end)

\* re.sub(pattern, '', s), for a pattern that matches no empty string
ReSubEmpty(items, s, ic) == CutMatches(s, ReFindAll(items, s, ic), 1)

(***************************************************************************)
(* Natural numbers of any size, as the interpreter's int and the digits of *)
(* its float and Decimal hold them: the decimal digits, the most           *)
(* significant first, none for zero.  The loops over the digits halve the  *)
(* range, so that a long number does not nest deeply.                      *)
(***************************************************************************)
\* d without the zeros it starts with
Trim(d) ==
    IF \A j \in 1..Len(d) : d[j] = 0 THEN << >>
    ELSE SubSeq(d, SetMin({ j \in 1..Len(d) : d[j] # 0 }), Len(d))

\* d without the zeros it ends with
TrimEnd(d) ==
    IF \A j \in 1..Len(d) : d[j] = 0 THEN << >>
    ELSE SubSeq(d, 1, SetMax({ j \in 1..Len(d) : d[j] # 0 }))

\* n zeros
Zeros(n) == [j \in 1..n |-> 0]

\* d with zeros before it, n digits in all
PadTo(d, n) == Zeros(n - Len(d)) \o d

RECURSIVE DigitsOf(_)
\* the digits of a small natural number
DigitsOf(n) == IF n = 0 THEN << >> ELSE Append(DigitsOf(n \div 10), n % 10)

RECURSIVE SmallOf(_, _)
\* the small natural number of the digits d, acc the value read so far
SmallOf(d, acc) == IF d = << >> THEN acc ELSE SmallOf(Tail(d), 10 * acc + Head(d))

\* -1, 0 or 1 as a is less than, equal to or greater than b
BigCmp(a, b) ==
    IF Len(a) # Len(b) THEN (IF Len(a) < Len(b) THEN -1 ELSE 1)
    ELSE IF a = b THEN 0
    ELSE IF a[SetMin({ j \in 1..Len(a) : a[j] # b[j] })]
              < b[SetMin({ j \in 1..Len(a) : a[j] # b[j] })] THEN -1 ELSE 1

\* one digit of a sum, a difference or a product by a small number k, with
\* the carry c that comes in: the digit d and the carry that goes out
DigitStep(op, x, y, k, c) ==
    CASE op = "add" -> [d |-> << (x + y + c) % 10 >>, c |-> (x + y + c) \div 10]
      [] op = "sub" -> [d |-> << (x - y - c + 10) % 10 >>, c |-> IF x - y - c < 0 THEN 1 ELSE 0]
      [] op = "mul" -> [d |-> << (x * k + c) % 10 >>, c |-> (x * k + c) \div 10]

\* the digits of the left part before those of the right part
Joined(left, right) == [d |-> left.d \o right.d, c |-> left.c]

RECURSIVE DigitRange(_, _, _, _, _, _, _)

\* the left part lo..mid, which takes the carry of the right part once that
\* part is worked out
LeftOf(op, a, b, k, lo, mid, right) ==
    IF right.c < 0 THEN right
    ELSE Joined(DigitRange(op, a, b, k, lo, mid, right.c), right)

\* the digits lo..hi of the result, from the last to the first
DigitRange(op, a, b, k, lo, hi, c) ==
    IF lo = hi THEN DigitStep(op, a[lo], b[lo], k, c)
    ELSE LeftOf(op, a, b, k, lo, (lo + hi) \div 2,
                DigitRange(op, a, b, k, (lo + hi) \div 2 + 1, hi, c))

\* the digits of the result with the last carry before them
Carried(r) == Trim(DigitsOf(r.c) \o r.d)

\* a + b of two numbers of the same length
AddPadded(a, b) ==
    IF a = << >> THEN << >> ELSE Carried(DigitRange("add", a, b, 0, 1, Len(a), 0))

\* a + b
BigAdd(a, b) ==
    IF Len(a) < Len(b) THEN AddPadded(PadTo(a, Len(b)), b) ELSE AddPadded(a, PadTo(b, Len(a)))

\* a - b, for a >= b
BigSub(a, b) ==
    IF a = << >> THEN << >>
    ELSE Trim(DigitRange("sub", a, PadTo(b, Len(a)), 0, 1, Len(a), 0).d)

\* a * k, for a small k > 0
BigMul(a, k) ==
    IF a = << >> THEN << >> ELSE Carried(DigitRange("mul", a, a, k, 1, Len(a), 0))

\* one digit of a quotient by a small number k, with the remainder c so far
QuotStep(x, k, c) == [d |-> << (10 * c + x) \div k >>, c |-> (10 * c + x) % k]

RECURSIVE QuotRange(_, _, _, _, _)

\* the digits of the right part behind those of the left part
JoinedRight(left, right) == [d |-> left.d \o right.d, c |-> right.c]

\* the right part mid+1..hi, which takes the remainder of the left part once
\* that part is worked out
RightOf(a, k, mid, hi, left) ==
    IF left.c < 0 THEN left
    ELSE JoinedRight(left, QuotRange(a, k, mid + 1, hi, left.c))

\* the digits lo..hi of a quotient, from the first to the last
QuotRange(a, k, lo, hi, c) ==
    IF lo = hi THEN QuotStep(a[lo], k, c)
    ELSE RightOf(a, k, (lo + hi) \div 2, hi, QuotRange(a, k, lo, (lo + hi) \div 2, c))

\* the quotient q and the remainder r of the digits read
QuotOf(r) == [q |-> Trim(r.d), r |-> r.c]

\* a divided by a small k > 0: the quotient q and the remainder r
BigDiv(a, k) ==
    IF a = << >> THEN [q |-> << >>, r |-> 0] ELSE QuotOf(QuotRange(a, k, 1, Len(a), 0))

RECURSIVE MulPow(_, _, _, _)
\* a * base^n, step the largest power of base taken at a time
MulPow(a, base, step, n) ==
    IF a = << >> \/ n = 0 THEN a
    ELSE IF n >= step THEN MulPow(BigMul(a, base ^ step), base, step, n - step)
    ELSE BigMul(a, base ^ n)

\* a * 2^n
MulPow2(a, n) == MulPow(a, 2, 24, n)

\* a * 5^n
MulPow5(a, n) == MulPow(a, 5, 10, n)

\* a * 10^n
MulPow10(a, n) == IF a = << >> THEN a ELSE a \o Zeros(n)

\* a number cut short: what is left of it, and whether what was cut was not zero
Cut(q, lost) == [q |-> q, lost |-> lost]

RECURSIVE ShiftRight(_, _, _)

\* the quotient r of one division, then the bits that remain to shift
Shifted(r, lost, n) == ShiftRight(r.q, lost \/ r.r # 0, n)

\* q shifted right by n bits
ShiftRight(q, lost, n) ==
    IF n = 0 \/ q = << >> THEN Cut(q, lost)
    ELSE IF n >= 24 THEN Shifted(BigDiv(q, 2 ^ 24), lost, n - 24)
    ELSE Shifted(BigDiv(q, 2 ^ n), lost, 0)

\* a without its last n decimal digits
DropLast(a, n) ==
    IF n >= Len(a) THEN Cut(<< >>, a # << >>)
    ELSE Cut(SubSeq(a, 1, Len(a) - n), \E j \in (Len(a) - n + 1)..Len(a) : a[j] # 0)

(***************************************************************************)
(* float: an IEEE 754 double, held as the shortest decimal that reads back *)
(* as that double, which is what repr() writes: the sign, the digits of    *)
(* the decimal without the zeros around them, and the power of ten they    *)
(* are multiplied by.  A number becomes the double nearest to it, ties to  *)
(* the even mantissa.                                                      *)
(***************************************************************************)
Two52 == << 4, 5, 0, 3, 5, 9, 9, 6, 2, 7, 3, 7, 0, 4, 9, 6 >>

Two53 == << 9, 0, 0, 7, 1, 9, 9, 2, 5, 4, 7, 4, 0, 9, 9, 2 >>

Two54 == << 1, 8, 0, 1, 4, 3, 9, 8, 5, 0, 9, 4, 8, 1, 9, 8, 4 >>

Two55 == << 3, 6, 0, 2, 8, 7, 9, 7, 0, 1, 8, 9, 6, 3, 9, 6, 8 >>

\* the exponent of the last bit of the smallest double, and of the greatest
MinExp == -1074

MaxExp == 971

\* the number q * 2^e, or a little more when lost
Scaled(q, lost, e) == [q |-> q, lost |-> lost, e |-> e]

\* the double m * 2^e, m below 2^53; an infinity when it is too large
Bin(m, e) == [m |-> m, e |-> e, inf |-> BigCmp(m, Two52) >= 0 /\ e > MaxExp]

\* d >= 2^BitsAtLeast(d) and d < 2^BitsBelow(d), for d > 0
BitsAtLeast(d) == ((Len(d) - 1) * 3321) \div 1000

BitsBelow(d) == (Len(d) * 3322) \div 1000 + 1

\* the cut c of a number, times 2^e
WithCut(c, e) == Scaled(c.q, c.lost, e)

\* s with q shifted right by n bits
Lowered(s, n) == WithCut(ShiftRight(s.q, s.lost, n), s.e + n)

\* s with q shifted left by n bits
Raised(s, n) == Scaled(MulPow2(s.q, n), s.lost, s.e - n)

\* s shifted at once by the bits its length tells are too many or too few
Coarse(s) ==
    IF BitsAtLeast(s.q) > 55 THEN Lowered(s, BitsAtLeast(s.q) - 55)
    ELSE IF BitsBelow(s.q) < 54 THEN Raised(s, 54 - BitsBelow(s.q))
    ELSE s

RECURSIVE Below55(_)
Below55(s) == IF BigCmp(s.q, Two55) < 0 THEN s ELSE Below55(Lowered(s, 1))

RECURSIVE AtLeast54(_)
AtLeast54(s) == IF BigCmp(s.q, Two54) >= 0 THEN s ELSE AtLeast54(Raised(s, 1))

\* s with 2^54 <= q < 2^55: the 53 bits of a mantissa and two more
Normal(s) == AtLeast54(Below55(Coarse(s)))

\* s with no bit below the last bit of the smallest double but the two more
Clamped(s) == IF s.e + 2 < MinExp THEN Lowered(s, MinExp - 2 - s.e) ELSE s

Odd(d) == d # << >> /\ d[Len(d)] % 2 = 1

\* the quarter r.q of a number, what is left of it r.r and below: round up
\* when that is more than a half, or a half and the quarter is odd
RoundsUp(r, lost) == r.r = 3 \/ (r.r = 2 /\ (lost \/ Odd(r.q)))

Rounded(r, lost) == IF RoundsUp(r, lost) THEN BigAdd(r.q, << 1 >>) ELSE r.q

\* the double of the mantissa m, which rounding may have brought to 2^53
DoubleOf(m, e) ==
    IF m = << >> THEN Bin(<< >>, 0)
    ELSE IF m = Two53 THEN Bin(Two52, e + 1)
    ELSE Bin(m, e)

RoundedOf(s) == DoubleOf(Rounded(BigDiv(s.q, 4), s.lost), s.e + 2)

\* the double nearest to s
Nearest(s) == IF s.q = << >> THEN Bin(<< >>, 0) ELSE RoundedOf(Clamped(Normal(s)))

\* the bits to shift d by, for d * 2^bits / 10^n to be 2^56 or more
BitsFor(d, n) ==
    IF 57 + (3322 * n) \div 1000 > BitsAtLeast(d)
    THEN 57 + (3322 * n) \div 1000 - BitsAtLeast(d) ELSE 0

\* d * 10^x, for d > 0
OfDecimal(d, x) ==
    IF x >= 0 THEN Scaled(MulPow10(d, x), FALSE, 0)
    ELSE WithCut(DropLast(MulPow2(d, BitsFor(d, 0 - x)), 0 - x), 0 - BitsFor(d, 0 - x))

\* the double nearest to d * 10^x, for d > 0: what is 10^310 or more is
\* beyond the greatest double, what is below 10^-330 is nearest to zero
BinOfDecimal(d, x) ==
    IF Len(d) + x > 310 THEN Bin(Two52, MaxExp + 1)
    ELSE IF Len(d) + x < -330 THEN Bin(<< >>, 0)
    ELSE Nearest(OfDecimal(d, x))

\* the decimal d * 10^x
Dec(d, x) == [d |-> d, x |-> x]

\* the value of the double b, 100 times over, as a decimal with this power of ten
GapExp(b) == (IF b.e >= 0 THEN 0 ELSE b.e) - 2

ExactIn(b) ==
    MulPow10(IF b.e >= 0 THEN MulPow2(b.m, b.e) ELSE MulPow5(b.m, 0 - b.e), 2)

\* half the gap between b and the double above it, with the same power of ten
HalfAbove(b) ==
    IF b.e >= 1 THEN MulPow10(MulPow2(<< 1 >>, b.e - 1), 2)
    ELSE MulPow10(MulPow5(<< 1 >>, 1 - b.e), 1)

\* half the gap between b and the double below it: half as wide when b is a
\* power of two
HalfBelow(b) ==
    IF b.m = Two52 /\ b.e > MinExp THEN BigDiv(HalfAbove(b), 2).q ELSE HalfAbove(b)

\* c reads back as the double whose gap runs from lo to hi: it is in the gap,
\* on its edge only when the mantissa is even
ReadsBack(c, lo, hi, even) ==
    IF even THEN BigCmp(lo, c) <= 0 /\ BigCmp(c, hi) <= 0
    ELSE BigCmp(lo, c) < 0 /\ BigCmp(c, hi) < 0

\* v cut to its first n digits, and the next number of n digits
Down(v, n) == IF n >= Len(v) THEN v ELSE SubSeq(v, 1, n) \o Zeros(Len(v) - n)

Up(v, n) ==
    IF n >= Len(v) THEN v ELSE MulPow10(BigAdd(SubSeq(v, 1, n), << 1 >>), Len(v) - n)

\* Down(v, n) is nearer to v than Up(v, n), or as near and even
DownNearer(v, n) ==
    \/ n >= Len(v)
    \/ BigCmp(BigMul(Trim(SubSeq(v, n + 1, Len(v))), 2), << 1 >> \o Zeros(Len(v) - n)) < 0
    \/ /\ BigMul(Trim(SubSeq(v, n + 1, Len(v))), 2) = << 1 >> \o Zeros(Len(v) - n)
       /\ v[n] % 2 = 0

\* of the two numbers of n digits around v, the one that reads back as v,
\* the nearer when both do, none when neither does
NearestOf(v, n, lo, hi, even) ==
    IF ReadsBack(Down(v, n), lo, hi, even)
    THEN (IF ReadsBack(Up(v, n), lo, hi, even) /\ ~DownNearer(v, n)
          THEN Up(v, n) ELSE Down(v, n))
    ELSE IF ReadsBack(Up(v, n), lo, hi, even) THEN Up(v, n)
    ELSE << >>

RECURSIVE ShortestFrom(_, _, _, _, _)

\* the candidate c of n digits, or the shortest of more digits when there is none
OrLonger(c, v, n, lo, hi, even) ==
    IF c # << >> THEN c ELSE ShortestFrom(v, n + 1, lo, hi, even)

\* the shortest number of n digits or more that reads back as v; v itself does
ShortestFrom(v, n, lo, hi, even) ==
    OrLonger(NearestOf(v, n, lo, hi, even), v, n, lo, hi, even)

\* the decimal c * 10^x without the zeros c ends with
Canonical(c, x) == Dec(TrimEnd(c), x + Len(c) - Len(TrimEnd(c)))

\* the shortest decimal that reads back as the double b, for b > 0
Shortest(b) ==
    Canonical(ShortestFrom(ExactIn(b), 1, BigSub(ExactIn(b), HalfBelow(b)),
                           BigAdd(ExactIn(b), HalfAbove(b)), ~Odd(b.m)), GapExp(b))

(***************************************************************************)
(* Python values: a kind and a payload.                                    *)
(***************************************************************************)
\* a str: its text
Str(s) == [k |-> "str", v |-> s]

\* an exception, by the name of its class
Exc(e) == [k |-> "exc", v |-> e]

Bool(b) == [k |-> "bool", v |-> b]

None == [k |-> "null", v |-> 0]

Arr(items) == [k |-> "arr", v |-> items]

\* a dict: its keys in the order they were set, and the value of each
Dict(keys, f) == [k |-> "obj", v |-> f, keys |-> keys]

\* the keys that the names write
KeysOf(names) == [j \in 1..Len(names) |-> T(names[j])]

\* a dict as the source writes one: the keys that the names write, in their
\* order, each with the value that the record r holds for its name
DictLiteral(names, r) ==
    Dict(KeysOf(names),
         [key \in { T(names[j]) : j \in 1..Len(names) } |->
            r[names[CHOOSE j \in 1..Len(names) : T(names[j]) = key]]])

\* an int: its sign and its digits
IntOf(neg, d) == [k |-> "int", v |-> [neg |-> neg /\ d # << >>, digits |-> d]]

\* the int n
PyInt(n) == IntOf(n < 0, DigitsOf(IF n < 0 THEN 0 - n ELSE n))

\* a float that is a number: the sign, the digits and the power of ten of
\* what repr() writes of it
Finite(neg, d, x) == [k |-> "float", v |-> [neg |-> neg, digits |-> d, exp |-> x]]

\* 0.0 and -0.0
Zero(neg) == Finite(neg, << >>, 0)

NaN == [k |-> "nan", v |-> 0]

Inf(sign) == [k |-> "inf", v |-> sign]

IsFloat(x) == x.k \in {"float", "nan", "inf"}

IsZero(x) == x.k = "float" /\ x.v.digits = << >>

\* sys.getrecursionlimit()
RecursionLimit == 1000

\* a pair is the place of two values, the indexes and keys that lead to it,
\* and the two values.  The two values of a pair are of the same kind and,
\* but for what is inside a list or a dict, of the same content
Alike(p) ==
    /\ p[2].k = p[3].k
    /\ CASE p[2].k = "arr" -> Len(p[2].v) = Len(p[3].v)
         [] p[2].k = "obj" -> DOMAIN p[2].v = DOMAIN p[3].v
         [] OTHER -> p[2].v = p[3].v

\* the pairs of what is at the same place inside two lists or two dicts
Inside(p) ==
    CASE p[2].k = "arr" -> { << Append(p[1], j), p[2].v[j], p[3].v[j] >> : j \in 1..Len(p[2].v) }
      [] p[2].k = "obj" -> { << Append(p[1], key), p[2].v[key], p[3].v[key] >> : key \in DOMAIN p[2].v }
      [] OTHER -> {}

\* a comparison at work on the pairs of one level of nesting
Comparing(pairs) == [done |-> pairs = {}, same |-> TRUE, pairs |-> pairs]

\* the pairs of a level compared, and then those of the level inside them
CompareLevel(st) ==
    IF \A p \in st.pairs : Alike(p) THEN Comparing(UNION { Inside(p) : p \in st.pairs })
    ELSE [done |-> TRUE, same |-> FALSE, pairs |-> {}]

RECURSIVE CompareLevels(_, _)
\* n levels at most from st on
CompareLevels(st, n) ==
    IF st.done THEN st
    ELSE IF n <= 1 THEN CompareLevel(st)
    ELSE CompareLevels(CompareLevels(st, n \div 2), n - (n \div 2))

\* a and b are the same value, a == b: the same kind and the same content,
\* level by level; no value is nested deeper than the limit of the
\* interpreter
SameValue(a, b) == CompareLevels(Comparing({ << << >>, a, b >> }), RecursionLimit + 1).same

\* the float whose repr() is the decimal c
OfDec(neg, c) == Finite(neg, c.d, c.x)

\* the float of the double b
FloatOfBin(neg, b) ==
    IF b.inf THEN Inf(IF neg THEN -1 ELSE 1)
    ELSE IF b.m = << >> THEN Zero(neg)
    ELSE OfDec(neg, Shortest(b))

\* a decimal of 15 digits or fewer, where every double has a full mantissa,
\* is the shortest decimal that reads back as the double nearest to it
ReadsAsItself(c) == Len(c.d) <= 15 /\ Len(c.d) + c.x <= 300 /\ Len(c.d) + c.x >= -300

NearCanonical(neg, c) ==
    IF c.d = << >> THEN Zero(neg)
    ELSE IF ReadsAsItself(c) THEN OfDec(neg, c)
    ELSE FloatOfBin(neg, BinOfDecimal(c.d, c.x))

\* the float nearest to the number d * 10^x
Near(neg, d, x) == NearCanonical(neg, Canonical(Trim(d), x))

\* the float of n hundredths
Num(n) == Near(n < 0, DigitsOf(IF n < 0 THEN 0 - n ELSE n), -2)

\* the double of a float that is a number and not zero
BinOf(a) == BinOfDecimal(a.v.digits, a.v.exp)

\* -1, 0 or 1 as the decimal a is less than, equal to or greater than b,
\* for a and b above zero
DecCmp(a, b) ==
    IF Len(a.d) + a.x # Len(b.d) + b.x
    THEN (IF Len(a.d) + a.x < Len(b.d) + b.x THEN -1 ELSE 1)
    ELSE IF Len(a.d) < Len(b.d) THEN BigCmp(a.d \o Zeros(Len(b.d) - Len(a.d)), b.d)
    ELSE BigCmp(a.d, b.d \o Zeros(Len(a.d) - Len(b.d)))

\* -1, 0 or 1 as a float is below, at or above zero
SignOf(a) ==
    CASE a.k = "inf" -> a.v
      [] IsZero(a) -> 0
      [] OTHER -> IF a.v.neg THEN -1 ELSE 1

\* how far from zero: an infinity is farther than any number
FartherCmp(a, b) ==
    CASE a.k = "inf" /\ b.k = "inf" -> 0
      [] a.k = "inf" -> 1
      [] b.k = "inf" -> -1
      [] OTHER -> DecCmp(Dec(a.v.digits, a.v.exp), Dec(b.v.digits, b.v.exp))

\* -1, 0 or 1 as a is less than, equal to or greater than b, neither a nan;
\* the decimals of two doubles are in the order of the doubles
FloatCmp(a, b) ==
    IF SignOf(a) # SignOf(b) THEN (IF SignOf(a) < SignOf(b) THEN -1 ELSE 1)
    ELSE IF SignOf(a) = 0 THEN 0
    ELSE SignOf(a) * FartherCmp(a, b)

\* a < b on floats: every comparison with nan is false
FloatLt(a, b) == a.k # "nan" /\ b.k # "nan" /\ FloatCmp(a, b) < 0

\* the sum, or the difference, of two numbers a * 2^e and b * 2^e, as a float
SumAligned(na, a, nb, b, e) ==
    IF na = nb THEN FloatOfBin(na, Nearest(Scaled(BigAdd(a, b), FALSE, e)))
    ELSE IF BigCmp(a, b) = 0 THEN Zero(FALSE)
    ELSE IF BigCmp(a, b) > 0 THEN FloatOfBin(na, Nearest(Scaled(BigSub(a, b), FALSE, e)))
    ELSE FloatOfBin(nb, Nearest(Scaled(BigSub(b, a), FALSE, e)))

\* the sum of the floats a and b, whose doubles are ba and bb: a double more
\* than 64 bits below the other does not change it
SumOfBins(a, ba, b, bb) ==
    IF ba.e - bb.e > 64 THEN a
    ELSE IF bb.e - ba.e > 64 THEN b
    ELSE IF ba.e < bb.e
    THEN SumAligned(a.v.neg, ba.m, b.v.neg, MulPow2(bb.m, bb.e - ba.e), ba.e)
    ELSE SumAligned(a.v.neg, MulPow2(ba.m, ba.e - bb.e), b.v.neg, bb.m, bb.e)

\* a + b on floats
FloatAdd(a, b) ==
    CASE a.k = "nan" \/ b.k = "nan" -> NaN
      [] a.k = "inf" /\ b.k = "inf" -> IF a.v = b.v THEN a ELSE NaN
      [] a.k = "inf" -> a
      [] b.k = "inf" -> b
      [] IsZero(a) /\ IsZero(b) -> Zero(a.v.neg /\ b.v.neg)
      [] IsZero(a) -> b
      [] IsZero(b) -> a
      [] OTHER -> SumOfBins(a, BinOf(a), b, BinOf(b))

\* the quotient r of a division by a small number, times 2^e
WithQuot(r, e) == Scaled(r.q, r.r # 0, e)

\* a / n on a float and a small int above zero
FloatDiv(a, n) ==
    IF a.k # "float" \/ IsZero(a) THEN a
    ELSE FloatOfBin(a.v.neg,
                    Nearest(WithQuot(BigDiv(MulPow2(BinOf(a).m, 64), n), BinOf(a).e - 64)))

\* the value of the double b as a decimal
Exact(b) ==
    IF b.e >= 0 THEN Dec(MulPow2(b.m, b.e), 0) ELSE Dec(MulPow5(b.m, 0 - b.e), b.e)

\* the digit of d that is n places before its end, 0 when there is none
DigitBefore(d, n) == IF n < Len(d) THEN d[Len(d) - n] ELSE 0

\* d without its last n digits, rounded half to even
RoundedLast(d, n) ==
    IF \/ DigitBefore(d, n - 1) > 5
       \/ /\ DigitBefore(d, n - 1) = 5
          /\ \/ DropLast(d, n - 1).lost
             \/ DigitBefore(d, n) % 2 = 1
    THEN BigAdd(DropLast(d, n).q, << 1 >>)
    ELSE DropLast(d, n).q

\* the decimal c with two digits after the point
TwoPlaces(c) == IF c.x >= -2 THEN c ELSE Dec(RoundedLast(c.d, -2 - c.x), -2)

\* the float nearest to the decimal c
NearDec(neg, c) == Near(neg, c.d, c.x)

\* round(a, 2) on a float: the value of the double, written with two digits
\* after the point, read again
Round2(a) ==
    IF a.k # "float" \/ IsZero(a) THEN a ELSE NearDec(a.v.neg, TwoPlaces(Exact(BinOf(a))))

(***************************************************************************)
(* The text of numbers: float(s), Decimal(s), str(x).                      *)
(***************************************************************************)
\* the value of each digit: its place in its run of ten
DigitInt == [c \in UnicodeDigit |-> c - (CHOOSE z \in DigitZeros : z <= c /\ c <= z + 9)]

\* the digits of a text of digits
DigitsOfText(s) == [j \in 1..Len(s) |-> DigitInt[Ch(s, j)]]

RECURSIVE WithoutRange(_, _, _, _)
\* s[lo..hi] without the characters of set, one half after the other
WithoutRange(s, set, lo, hi) ==
    IF lo > hi THEN << >>
    ELSE IF lo = hi THEN (IF Ch(s, lo) \in set THEN << >> ELSE << Ch(s, lo) >>)
    ELSE WithoutRange(s, set, lo, (lo + hi) \div 2)
         \o WithoutRange(s, set, (lo + hi) \div 2 + 1, hi)

\* s without the characters of set
Without(s, set) == WithoutRange(s, set, 1, Len(s))

\* s is the word w, a word of small ASCII letters, in letters small or capital
IsWord(s, w) ==
    /\ Len(s) = Len(w)
    /\ \A j \in 1..Len(w) : Ch(s, j) \in {Ch(w, j), UpperCh(Ch(w, j))}

\* a text starts with a minus sign; the text after its sign
IsNeg(s) == s # << >> /\ Ch(s, 1) = Ord["-"]

Unsigned(s) == IF s # << >> /\ Ch(s, 1) \in {Ord["+"], Ord["-"]} THEN Suffix(s, 2) ELSE s

\* where the exponent of a number starts
ExpMark(s) == { j \in 1..Len(s) : Ch(s, j) \in {Ord["e"], Ord["E"]} }

\* the text before the exponent mark, and the text after it
Mantissa(s) == IF ExpMark(s) = {} THEN s ELSE SubSeq(s, 1, SetMin(ExpMark(s)) - 1)

ExpText(s) == IF ExpMark(s) = {} THEN << >> ELSE Suffix(s, SetMin(ExpMark(s)) + 1)

Point(m) == { j \in 1..Len(m) : Ch(m, j) = Ord["."] }

\* the text before the point, and the text after it
IntPart(m) == IF Point(m) = {} THEN m ELSE SubSeq(m, 1, SetMin(Point(m)) - 1)

FracPart(m) == IF Point(m) = {} THEN << >> ELSE Suffix(m, SetMin(Point(m)) + 1)

\* digits [. digits] or . digits
IsMantissa(m) ==
    /\ AllIn(IntPart(m) \o FracPart(m), UnicodeDigit)
    /\ IntPart(m) \o FracPart(m) # << >>

\* [+-] digits
IsExpText(t) == Unsigned(t) # << >> /\ AllIn(Unsigned(t), UnicodeDigit)

\* a mantissa, with an exponent or without
IsDecimalText(s) ==
    /\ IsMantissa(Mantissa(s))
    /\ ExpMark(s) # {} => IsExpText(ExpText(s))

\* the digits of the mantissa of a number, the point left out
CoefficientOf(s) == DigitsOfText(IntPart(Mantissa(s)) \o FracPart(Mantissa(s)))

\* a small integer for the digits d; 10^7 stands for what is more
Saturated(d) == IF Len(d) > 7 THEN 10000000 ELSE SmallOf(d, 0)

\* the exponent a text of [+-] digits denotes, none for 0
ExpValue(t) ==
    IF t = << >> THEN 0
    ELSE (IF IsNeg(t) THEN -1 ELSE 1) * Saturated(Trim(DigitsOfText(Unsigned(t))))

\* a conversion that raises the exception e, and one that gives x
Failed(e) == [ok |-> FALSE, v |-> Exc(e)]

AFloat(x) == [ok |-> TRUE, v |-> x]

NotAFloat == Failed("ValueError")

\* the float a text without its sign denotes
FloatOfBody(neg, s) ==
    IF IsWord(s, T("nan")) THEN AFloat(NaN)
    ELSE IF IsWord(s, T("inf")) \/ IsWord(s, T("infinity")) THEN AFloat(Inf(IF neg THEN -1 ELSE 1))
    ELSE IF IsDecimalText(s)
    THEN AFloat(Near(neg, CoefficientOf(s), ExpValue(ExpText(s)) - Len(FracPart(Mantissa(s)))))
    ELSE NotAFloat

\* every underscore is between two digits
UnderscoresBetweenDigits(s) ==
    \A j \in 1..Len(s) :
       Ch(s, j) = Ord["_"] => /\ j > 1 /\ j < Len(s)
                         /\ Ch(s, j - 1) \in UnicodeDigit
                         /\ Ch(s, j + 1) \in UnicodeDigit

SignedFloat(s) == FloatOfBody(IsNeg(s), Unsigned(s))

FloatOfStripped(s) ==
    IF UnderscoresBetweenDigits(s) THEN SignedFloat(Without(s, {Ord["_"]})) ELSE NotAFloat

\* the white space float() strips: that of ASCII from tab to carriage return
\* and the space, and the white space beyond ASCII
FloatSpace == Space \ NotFloatSpace

\* float(s) of a str: [ok, v]; not ok is ValueError
FloatOfStr(s) == FloatOfStripped(StripOf(s, FloatSpace))

\* the value of an int: -1, 0 or 1 as a is less than, equal to or greater than b
SgCmp(a, b) ==
    IF a.neg # b.neg THEN (IF a.neg THEN -1 ELSE 1)
    ELSE IF a.neg THEN BigCmp(b.digits, a.digits) ELSE BigCmp(a.digits, b.digits)

\* a + b
SgAdd(a, b) ==
    IF a.neg = b.neg THEN IntOf(a.neg, BigAdd(a.digits, b.digits)).v
    ELSE IF BigCmp(a.digits, b.digits) >= 0 THEN IntOf(a.neg, BigSub(a.digits, b.digits)).v
    ELSE IntOf(b.neg, BigSub(b.digits, a.digits)).v

\* the greatest exponent of the first digit of a Decimal, and the least
\* exponent of its last digit
Emax == IntOf(FALSE, [j \in 1..18 |-> 9]).v

Etiny == IntOf(TRUE, << 1 >> \o [j \in 1..17 |-> 9] \o << 7 >>).v

\* a Decimal: sign, digits and exponent; special is "" for a number, else
\* Infinity, NaN or sNaN
DecimalValue(neg, d, e, special) ==
    [k |-> "dec", v |-> [neg |-> neg, digits |-> d, exp |-> e, special |-> special]]

\* the Decimal of n hundredths
Decimal(n) == DecimalValue(n < 0, DigitsOf(IF n < 0 THEN 0 - n ELSE n), PyInt(-2).v, "")

NotADecimal == Failed("InvalidOperation")

\* the Decimal d * 10^e, when the exponents are within those a Decimal can have
DecimalWithin(neg, d, e) ==
    IF /\ SgCmp(e, Etiny) >= 0
       /\ SgCmp(SgAdd(e, PyInt(IF d = << >> THEN 0 ELSE Len(d) - 1).v), Emax) <= 0
    THEN AFloat(DecimalValue(neg, d, e, "")) ELSE NotADecimal

\* the exponent the text of a number denotes: that after its mark, less the
\* digits after the point
ExponentOf(s) ==
    SgAdd(IntOf(IsNeg(ExpText(s)), Trim(DigitsOfText(Unsigned(ExpText(s))))).v,
          PyInt(0 - Len(FracPart(Mantissa(s)))).v)

\* the Decimal a text without its sign denotes
DecimalOfBody(neg, s) ==
    IF IsWord(s, T("inf")) \/ IsWord(s, T("infinity"))
    THEN AFloat(DecimalValue(neg, << >>, PyInt(0).v, "Infinity"))
    ELSE IF IsWord(Prefix(s, 3), T("nan")) /\ AllIn(Suffix(s, 4), UnicodeDigit)
    THEN AFloat(DecimalValue(neg, Trim(DigitsOfText(Suffix(s, 4))), PyInt(0).v, "NaN"))
    ELSE IF IsWord(Prefix(s, 4), T("snan")) /\ AllIn(Suffix(s, 5), UnicodeDigit)
    THEN AFloat(DecimalValue(neg, Trim(DigitsOfText(Suffix(s, 5))), PyInt(0).v, "sNaN"))
    ELSE IF IsDecimalText(s) THEN DecimalWithin(neg, Trim(CoefficientOf(s)), ExponentOf(s))
    ELSE NotADecimal

SignedDecimal(s) == DecimalOfBody(IsNeg(s), Unsigned(s))

\* Decimal(s) of a str: [ok, v]; not ok is decimal.InvalidOperation
DecimalOfStr(s) == SignedDecimal(Without(Strip(s), {Ord["_"]}))

\* a small integer for an exponent
SmallExp(e) == (IF e.neg THEN -1 ELSE 1) * Saturated(e.digits)

\* float(d) of a Decimal: [ok, v]; not ok is ValueError
FloatOfDecimal(d) ==
    CASE d.v.special = "sNaN" -> NotAFloat
      [] d.v.special = "NaN" -> AFloat(NaN)
      [] d.v.special = "Infinity" -> AFloat(Inf(IF d.v.neg THEN -1 ELSE 1))
      [] OTHER -> AFloat(Near(d.v.neg, d.v.digits, SmallExp(d.v.exp)))

RECURSIVE DigitText(_, _, _)
\* the text of the digits d[lo..hi], one half after the other
DigitText(d, lo, hi) ==
    IF lo > hi THEN << >>
    ELSE IF lo = hi THEN << Ord["0"] + d[lo] >>
    ELSE DigitText(d, lo, (lo + hi) \div 2) \o DigitText(d, (lo + hi) \div 2 + 1, hi)

\* the text of a natural number, 0 for none
NumberText(d) == IF d = << >> THEN T("0") ELSE DigitText(d, 1, Len(d))

\* n zeros
ZerosText(n) == DigitText(Zeros(n), 1, n)

\* the digits d with the point p places after their start
FixedText(d, p) ==
    IF p <= 0 THEN T("0.") \o ZerosText(0 - p) \o NumberText(d)
    ELSE IF p >= Len(d) THEN NumberText(d) \o ZerosText(p - Len(d)) \o T(".0")
    ELSE DigitText(d, 1, p) \o T(".") \o DigitText(d, p + 1, Len(d))

\* an exponent of two digits or more, with its sign
ExponentText(x) ==
    T(IF x < 0 THEN "-" ELSE "+")
    \o T(IF x > -10 /\ x < 10 THEN "0" ELSE "")
    \o NumberText(DigitsOf(IF x < 0 THEN 0 - x ELSE x))

\* the digits d with the point after the first, times ten to the x
ScientificText(d, x) ==
    DigitText(d, 1, 1) \o (IF Len(d) > 1 THEN T(".") \o DigitText(d, 2, Len(d)) ELSE << >>)
    \o T("e") \o ExponentText(x)

\* repr() of a float above zero: with an exponent when the point is more
\* than 16 places after the first digit, or more than 4 before it
ReprDec(d, x) ==
    IF Len(d) + x > -4 /\ Len(d) + x <= 16 THEN FixedText(d, Len(d) + x)
    ELSE ScientificText(d, Len(d) + x - 1)

\* repr() of a float
ReprFloat(a) ==
    CASE a.k = "nan" -> T("nan")
      [] a.k = "inf" -> T(IF a.v < 0 THEN "-inf" ELSE "inf")
      [] IsZero(a) -> T(IF a.v.neg THEN "-0.0" ELSE "0.0")
      [] OTHER -> T(IF a.v.neg THEN "-" ELSE "") \o ReprDec(a.v.digits, a.v.exp)

\* str() of an int
IntText(a) == T(IF a.v.neg THEN "-" ELSE "") \o NumberText(a.v.digits)

\* float(n) of an int: the float nearest to it, OverflowError beyond the floats
OrOverflow(f) == IF f.k = "inf" THEN Failed("OverflowError") ELSE AFloat(f)

FloatOfInt(x) == OrOverflow(Near(x.v.neg, x.v.digits, 0))

\* float(x) of any value: [ok, v]; not ok is ValueError, TypeError or
\* OverflowError
FloatOf(x) ==
    CASE IsFloat(x)   -> AFloat(x)
      [] x.k = "bool" -> AFloat(IF x.v THEN Num(100) ELSE Zero(FALSE))
      [] x.k = "int"  -> FloatOfInt(x)
      [] x.k = "str"  -> FloatOfStr(x.v)
      [] x.k = "dec"  -> FloatOfDecimal(x)
      [] OTHER        -> Failed("TypeError")

RECURSIVE HexText(_, _)
\* the n hexadecimal digits of the code c
HexText(c, n) ==
    IF n = 0 THEN << >>
    ELSE Append(HexText(c \div 16, n - 1),
                IF c % 16 < 10 THEN Ord["0"] + (c % 16) ELSE Ord["a"] + (c % 16) - 10)

\* the escape repr() writes for a character that is not printable
HexEscape(c) ==
    IF c < 256 THEN T("\\x") \o HexText(c, 2)
    ELSE IF c < 65536 THEN T("\\u") \o HexText(c, 4)
    ELSE T("\\U") \o HexText(c, 8)

\* what repr() writes for the character c of a str in quotes q
ReprCh(c, q) ==
    CASE c = q \/ c = Ord["\\"] -> << Ord["\\"], c >>
      [] c = Ord["\t"] -> T("\\t")
      [] c = Ord["\n"] -> T("\\n")
      [] c = Ord["\r"] -> T("\\r")
      [] OTHER -> IF IsPrintable(c) THEN << c >> ELSE HexEscape(c)

RECURSIVE ReprRange(_, _, _, _)
\* what repr() writes for s[lo..hi], one half after the other
ReprRange(s, q, lo, hi) ==
    IF lo > hi THEN << >>
    ELSE IF lo = hi THEN ReprCh(Ch(s, lo), q)
    ELSE ReprRange(s, q, lo, (lo + hi) \div 2) \o ReprRange(s, q, (lo + hi) \div 2 + 1, hi)

\* the quotes repr() puts around a str: double ones when it holds single
\* ones and no double ones
QuoteFor(s) ==
    IF Ord["'"] \in CharsOf(s) /\ Ord["\""] \notin CharsOf(s) THEN Ord["\""] ELSE Ord["'"]

InQuotes(s, q) == << q >> \o ReprRange(s, q, 1, Len(s)) \o << q >>

\* repr(s) of a str
ReprStr(s) == InQuotes(s, QuoteFor(s))

RECURSIVE JoinRange(_, _, _)
\* ', '.join(texts[lo..hi]), one half after the other
JoinRange(texts, lo, hi) ==
    IF lo > hi THEN << >>
    ELSE IF lo = hi THEN texts[lo]
    ELSE JoinRange(texts, lo, (lo + hi) \div 2) \o T(", ")
         \o JoinRange(texts, (lo + hi) \div 2 + 1, hi)

RECURSIVE ReprOf(_)
\* repr(x)
ReprOf(x) ==
    CASE x.k = "str"  -> ReprStr(x.v)
      [] x.k = "null" -> T("None")
      [] x.k = "bool" -> T(IF x.v THEN "True" ELSE "False")
      [] x.k = "int"  -> IntText(x)
      [] IsFloat(x)   -> ReprFloat(x)
      [] x.k = "arr"  ->
           T("[") \o JoinRange([j \in 1..Len(x.v) |-> ReprOf(x.v[j])], 1, Len(x.v)) \o T("]")
      [] x.k = "obj"  ->
           T("{") \o JoinRange([j \in 1..Len(x.keys) |->
                                  ReprStr(x.keys[j]) \o T(": ") \o ReprOf(x.v[x.keys[j]])],
                               1, Len(x.keys)) \o T("}")

\* str(x)
PyStr(x) == IF x.k = "str" THEN x.v ELSE ReprOf(x)

\* Decimal(str(x)): [ok, v]; not ok is decimal.InvalidOperation
DecimalOf(x) == DecimalOfStr(PyStr(x))

(***************************************************************************)
(* intelligent_fallback_extraction                                         *)
(***************************************************************************)
AmountTail == << Cls({Ord[":"]} \cup Space, 0, -1), Cls(CurrencySymbol, 0, 1), GroupOpen,
                 Cls(Digit \cup {Ord[","]}, 1, -1), Cls({Ord["."]}, 0, 1), Cls(Digit, 0, -1),
                 GroupClose >>

amount_patterns ==
    << << Alt(<< T("BALANCE"), T("TOTAL"), T("AMOUNT") >>), Cls(Space, 1, -1),
          OptAlt(<< T("DUE"), T("PAID") >>) >> \o AmountTail,
       << Alt(<< T("GRAND"), T("FINAL") >>), Cls(Space, 0, -1), Lit(T("TOTAL")) >> \o AmountTail,
       << Cls(CurrencySymbol, 1, 1), Cls(Space, 0, -1), GroupOpen,
          Cls(Digit \cup {Ord[","]}, 1, -1), Cls({Ord["."]}, 1, 1), Cls(Digit, 2, 2), GroupClose,
          Cls(Space, 0, -1), Alt(<< T("CASH"), T("CARD"), T("PAID") >>) >>,
       << Lit(T("TOTAL")) >> \o AmountTail >>

\* s.replace(c, '')
RemoveChar(s, c) == Without(s, {c})

\* [float(m.replace(',', '')) for m in matches]
MatchAmounts(s, ms) ==
    [j \in 1..Len(ms) |-> FloatOfStr(RemoveChar(Group(s, ms[j], 1), Ord[","]))]

RECURSIVE MaxFrom(_, _, _)
\* the greatest of best and vals[j..]: the first of those that are equal
MaxFrom(vals, j, best) ==
    IF j > Len(vals) THEN best
    ELSE MaxFrom(vals, j + 1, IF FloatLt(best, vals[j]) THEN vals[j] ELSE best)

\* max(amounts)
MaxOf(vals) == MaxFrom(vals, 2, vals[1])

\* the matches of amount pattern p in the text
AmountMatches(s, p) == ReFindAll(amount_patterns[p], s, TRUE)

RECURSIVE FallbackAmount(_, _)
RECURSIVE AmountOf(_, _, _)

\* one pass of the loop over amount_patterns: the conversions fs of the
\* matches of pattern p give their maximum; no match, or a conversion that
\* raises, goes on to the next pattern
AmountOf(s, p, fs) ==
    IF fs # << >> /\ \A j \in 1..Len(fs) : fs[j].ok
    THEN MaxOf([j \in 1..Len(fs) |-> fs[j].v])
    ELSE FallbackAmount(s, p + 1)

\* the loop over amount_patterns, from pattern p on; 0.0 when none gives an
\* amount
FallbackAmount(s, p) ==
    IF p > Len(amount_patterns) THEN Zero(FALSE)
    ELSE AmountOf(s, p, MatchAmounts(s, AmountMatches(s, p)))

business_keywords == << T("ltd"), T("limited"), T("inc"), T("corp"), T("group"),
                        T("company"), T("store"), T("market"), T("shop") >>

HasKeyword(s, words) == \E j \in 1..Len(words) : Contains(s, words[j])

NonBlank(line) == Strip(line) # << >>

\* [line.strip() for line in text.split('\n') if line.strip()]
StripEach(lines) == [j \in 1..Len(lines) |-> Strip(lines[j])]

TextLines(s) == StripEach(SelectSeq(SplitLines(s), NonBlank))

FirstN(sq, n) == SubSeq(sq, 1, IF Len(sq) < n THEN Len(sq) ELSE n)

\* ^\d+[./]\d+
DateLike == << Cls(UnicodeDigit, 1, -1), Cls({Ord["."], Ord["/"]}, 1, 1),
               Cls(UnicodeDigit, 1, -1) >>

IsBusinessLine(line) == HasKeyword(StrLower(line), business_keywords)

IsNameLine(line) == Len(line) > 5 /\ ~ReMatch(DateLike, 1, line, 1, FALSE).ok

\* the first of the lines found, cut to 60 characters
VendorFrom(found) == IF found = << >> THEN T("Unknown Store") ELSE Prefix(found[1], 60)

\* the vendor of the business lines biz, else of the name lines
VendorAmong(biz, lines) ==
    IF VendorFrom(biz) = T("Unknown Store")
    THEN VendorFrom(SelectSeq(FirstN(lines, 8), IsNameLine))
    ELSE VendorFrom(biz)

VendorOfLines(lines) == VendorAmong(SelectSeq(FirstN(lines, 10), IsBusinessLine), lines)

FallbackVendor(s) == VendorOfLines(TextLines(s))

category_keywords ==
    << [cat |-> T("Food"), words |-> KeysOf(<< "grocery", "supermarket", "food",
            "restaurant", "cafe", "coffee", "pizza", "burger", "tesco", "sainsbury",
            "asda", "coop", "co-op", "mcdonald", "kfc" >>)],
       [cat |-> T("Fuel"), words |-> KeysOf(<< "petrol", "gas", "fuel", "shell", "bp",
            "esso", "texaco" >>)],
       [cat |-> T("Healthcare"), words |-> KeysOf(<< "pharmacy", "chemist", "boots",
            "hospital", "clinic", "medical" >>)],
       [cat |-> T("Office"), words |-> KeysOf(<< "office", "supplies", "staples", "paper",
            "stationery" >>)],
       [cat |-> T("Travel"), words |-> KeysOf(<< "travel", "train", "bus", "taxi", "uber",
            "hotel", "airline", "parking" >>)],
       [cat |-> T("Equipment"), words |-> KeysOf(<< "equipment", "hardware", "electronics",
            "computer", "software" >>)] >>

\* the first category, in order, of those whose keywords were found
FirstCategory(hits) ==
    IF hits = {} THEN T("Other") ELSE category_keywords[SetMin(hits)].cat

CategoryOfLower(low) ==
    FirstCategory({ j \in 1..Len(category_keywords) :
                      HasKeyword(low, category_keywords[j].words) })

FallbackCategory(s) == CategoryOfLower(StrLower(s))

FallbackCurrency(s) ==
    IF Contains(s, T("$")) THEN T("USD")
    ELSE IF Contains(s, T("€")) THEN T("EUR")
    ELSE IF Contains(s, T("¥")) THEN T("JPY")
    ELSE T("GBP")

ItemHead == << GroupOpen, Cls(Alpha, 1, 1), Cls(Alpha \cup Space, 1, -1), GroupClose,
               Cls(Space, 1, -1) >>

ItemPrice == << GroupOpen, Cls(Digit, 1, -1), Cls({Ord["."]}, 1, 1), Cls(Digit, 2, 2),
                GroupClose >>

item_patterns == << ItemHead \o << Cls(CurrencySymbol, 0, 1) >> \o ItemPrice,
                    ItemHead \o ItemPrice >>

LineItem(description, price) ==
    DictLiteral(<< "description", "quantity", "unitPrice", "subtotal" >>,
                [description |-> Str(description), quantity |-> PyInt(1),
                 unitPrice |-> price, subtotal |-> price])

\* the items of one pattern: of its first 10 matches, those whose
\* description, stripped, is longer than 2
ItemsOf(s, kept) ==
    [j \in 1..Len(kept) |->
       LineItem(Strip(Group(s, kept[j], 1)), FloatOfStr(Group(s, kept[j], 2)).v)]

KeepLong(s, ms) ==
    LET Long(m) == Len(Strip(Group(s, m, 1))) > 2
    IN  SelectSeq(ms, Long)

PatternItems(s, p) ==
    ItemsOf(s, KeepLong(s, FirstN(ReFindAll(item_patterns[p], s, FALSE), 10)))

RECURSIVE FallbackLineItems(_, _)
RECURSIVE ItemsOrNext(_, _, _)

\* the items of pattern p when there are some, else those of the next pattern
ItemsOrNext(s, p, items) ==
    IF items # << >> THEN items ELSE FallbackLineItems(s, p + 1)

\* the loop over item_patterns, from pattern p on, broken at the first
\* pattern that gives items
FallbackLineItems(s, p) ==
    IF p > Len(item_patterns) THEN << >> ELSE ItemsOrNext(s, p, PatternItems(s, p))

RECURSIVE SumFrom(_, _, _)
\* acc and the subtotals of items[j..], added one after the other
SumFrom(items, j, acc) ==
    IF j > Len(items) THEN acc
    ELSE SumFrom(items, j + 1, FloatAdd(acc, items[j].v[T("subtotal")]))

\* sum(item['subtotal'] for item in line_items), which starts from the int 0
SumSubtotals(items) == SumFrom(items, 1, Zero(FALSE))

\* the keys of the dict of a receipt, in the order the source writes them
ReceiptKeys == << "amount", "vendor", "category", "confidence", "currency", "date",
                   "lineItems", "subtotal", "totalTax", "hasDetailedItems" >>

\* a fallback whose confidence follows the amount found, not the line items
FallbackDictByAmount(amount, vendor, category, currency, line_items) ==
    DictLiteral(ReceiptKeys,
         [amount     |-> amount,
          vendor     |-> Str(vendor),
          category   |-> Str(category),
          confidence |-> Num(IF FloatLt(Zero(FALSE), amount) THEN 60 ELSE 50),
          currency   |-> Str(currency),
          date       |-> None,
          lineItems  |-> Arr(line_items),
          subtotal   |-> IF line_items # << >> THEN SumSubtotals(line_items)
                         ELSE None,
          totalTax   |-> None,
          hasDetailedItems |-> Bool(Len(line_items) > 0)])

\* the dict the fallback returns
FallbackDict(amount, vendor, category, currency, line_items) ==
    DictLiteral(ReceiptKeys,
         [amount     |-> amount,
          vendor     |-> Str(vendor),
          category   |-> Str(category),
          confidence |-> Num(IF line_items # << >> THEN 60 ELSE 50),
          currency   |-> Str(currency),
          date       |-> None,
          lineItems  |-> Arr(line_items),
          subtotal   |-> IF line_items # << >> THEN SumSubtotals(line_items)
                         ELSE None,
          totalTax   |-> None,
          hasDetailedItems |-> Bool(Len(line_items) > 0)])

intelligent_fallback_extraction(s) ==
    FallbackDict(FallbackAmount(s, 1), FallbackVendor(s), FallbackCategory(s),
                 FallbackCurrency(s), FallbackLineItems(s, 1))

(***************************************************************************)
(* json.loads: [ok, v, end]; not ok is json.JSONDecodeError, the           *)
(* ValueError of an int of more than 4300 digits, or the RecursionError of *)
(* arrays and objects nested deeper than the interpreter's limit allows.   *)
(* The scanner is held as its steps over the arrays and objects that are   *)
(* open, so that its depth is that of the text and of nothing else.        *)
(***************************************************************************)
JsonSpace == {Ord[" "], Ord["\t"], Ord["\n"], Ord["\r"]}

JsonFail == [ok |-> FALSE, v |-> Exc("JSONDecodeError"), end |-> 0]

JsonTooLong == [ok |-> FALSE, v |-> Exc("ValueError"), end |-> 0]

\* an object or an array that is nested too deep to be read
JsonTooDeep == [ok |-> FALSE, v |-> Exc("RecursionError"), end |-> 0]

JsonOk(v, end) == [ok |-> TRUE, v |-> v, end |-> end]

EmptyDict == [x \in {} |-> None]

\* the calls json.loads adds to those under way where it is called, counted
\* as the interpreter counts them against its limit: loads, decode and
\* raw_decode, and one more that the count starts with
CallsOfLoads == 4

\* how deep the objects and arrays of a text can be nested for json.loads
\* to read it, called in a function in which `stack` calls are under way,
\* its own counted: each object and each array counts as a call
JsonDepth(stack) == RecursionLimit - stack - CallsOfLoads

\* the character at position i, -1 beyond the text
CharAt(s, i) == IF i >= 1 /\ i <= Len(s) THEN Ch(s, i) ELSE -1

\* the first position from i on that holds no character of set
FirstOutside(s, i, set) ==
    CHOOSE j \in i..(Len(s) + 1) :
       /\ CharAt(s, j) \notin set
       /\ \A k \in i..(j - 1) : Ch(s, k) \in set

SkipSpace(s, i) == FirstOutside(s, i, JsonSpace)

\* the first position from i on that holds no digit
DigitRun(s, i) == FirstOutside(s, i, Digit)

\* the characters that end a run of plain characters in a string: the
\* quote, the backslash and the control characters
ControlChars == 0..31

StringEnd == {Ord["\""], Ord["\\"]} \cup ControlChars

\* the first position from i on that holds one of them
NextSpecial(s, i) ==
    CHOOSE j \in i..(Len(s) + 1) :
       /\ j > Len(s) \/ Ch(s, j) \in StringEnd
       /\ \A k \in i..(j - 1) : Ch(s, k) \notin StringEnd

\* the character each escape letter stands for
BACKSLASH ==
    (Ord["\""] :> Ord["\""]) @@ (Ord["\\"] :> Ord["\\"]) @@ (Ord["/"] :> Ord["/"])
    @@ (Ord["b"] :> 8) @@ (Ord["f"] :> Ord["\f"]) @@ (Ord["n"] :> Ord["\n"])
    @@ (Ord["r"] :> Ord["\r"]) @@ (Ord["t"] :> Ord["\t"])

\* [0-9a-fA-F]
HexDigit == Digit \cup (Ord["a"]..Ord["f"]) \cup (Ord["A"]..Ord["F"])

HexVal(c) ==
    IF c \in Digit THEN c - Ord["0"]
    ELSE IF c >= Ord["a"] THEN c - Ord["a"] + 10 ELSE c - Ord["A"] + 10

\* four hexadecimal digits at i
IsHex4(s, i) == i + 3 <= Len(s) /\ \A k \in i..(i + 3) : Ch(s, k) \in HexDigit

Hex4(s, i) ==
    4096 * HexVal(Ch(s, i)) + 256 * HexVal(Ch(s, i + 1))
    + 16 * HexVal(Ch(s, i + 2)) + HexVal(Ch(s, i + 3))

\* a high surrogate at i, the four digits of a \u escape, and a low
\* surrogate in the \u escape after it: the two are one character
IsPair(s, i) ==
    /\ Hex4(s, i) >= 55296 /\ Hex4(s, i) <= 56319
    /\ CharAt(s, i + 4) = Ord["\\"] /\ CharAt(s, i + 5) = Ord["u"] /\ IsHex4(s, i + 6)
    /\ Hex4(s, i + 6) >= 56320 /\ Hex4(s, i + 6) <= 57343

PairCode(s, i) == 65536 + 1024 * (Hex4(s, i) - 55296) + (Hex4(s, i + 6) - 56320)

\* the string being read: where it goes on, the characters read, and what
\* it is once it has been read
Reading(at, acc) == [done |-> FALSE, at |-> at, acc |-> acc, out |-> JsonFail]

Read(r) == [done |-> TRUE, at |-> 0, acc |-> << >>, out |-> r]

\* the escape \uXXXX whose digits start at i: the character of that code,
\* a surrogate that is not one of a pair as it is
UnicodeEscape(s, i, acc) ==
    IF ~IsHex4(s, i) THEN Read(JsonFail)
    ELSE IF IsPair(s, i) THEN Reading(i + 10, Append(acc, PairCode(s, i)))
    ELSE Reading(i + 4, Append(acc, Hex4(s, i)))

\* the escape whose letter is at i
Escape(s, i, acc) ==
    IF CharAt(s, i) = Ord["u"] THEN UnicodeEscape(s, i + 1, acc)
    ELSE IF CharAt(s, i) \in DOMAIN BACKSLASH
    THEN Reading(i + 1, Append(acc, BACKSLASH[Ch(s, i)]))
    ELSE Read(JsonFail)

\* the plain characters from i to before p, then what is at p: the closing
\* quote, an escape, or a control character, which a string may not hold
StringTo(s, i, acc, p) ==
    IF p > Len(s) THEN Read(JsonFail)
    ELSE IF Ch(s, p) = Ord["\""] THEN Read(JsonOk(Str(acc \o SubSeq(s, i, p - 1)), p + 1))
    ELSE IF Ch(s, p) = Ord["\\"] THEN Escape(s, p + 1, acc \o SubSeq(s, i, p - 1))
    ELSE Read(JsonFail)

RECURSIVE StringChunks(_, _, _)
\* the loop of scanstring, n turns of it at most from st on: each turn
\* reads the plain characters up to a quote or a backslash and what
\* follows them
StringChunks(s, st, n) ==
    IF st.done THEN st
    ELSE IF n <= 1 THEN StringTo(s, st.at, st.acc, NextSpecial(s, st.at))
    ELSE StringChunks(s, StringChunks(s, st, n \div 2), n - (n \div 2))

\* the string whose opening quote is just before i; acc the characters read
JsonString(s, i, acc) == StringChunks(s, Reading(i, acc), Len(s) + 1).out

\* where the fraction that starts at i ends: i when there is none
FracEnd(s, i) ==
    IF CharAt(s, i) = Ord["."] /\ DigitRun(s, i + 1) > i + 1 THEN DigitRun(s, i + 1) ELSE i

\* where the digits of an exponent end, from the first of them at i on:
\* none when no digit is there
ExpDigitsEnd(s, i, none) == IF DigitRun(s, i) > i THEN DigitRun(s, i) ELSE none

\* where the exponent that starts at i ends: i when there is none
ExpEnd(s, i) ==
    IF CharAt(s, i) \in {Ord["e"], Ord["E"]}
    THEN ExpDigitsEnd(s, IF CharAt(s, i + 1) \in {Ord["+"], Ord["-"]} THEN i + 2 ELSE i + 1, i)
    ELSE i

\* the number from i to before end, its digits from from to before iend:
\* a float when a fraction or an exponent follows them, else an int
NumberValue(s, i, from, iend, end) ==
    IF end > iend THEN JsonOk(FloatOfStr(SubSeq(s, i, end - 1)).v, end)
    ELSE IF iend - from > 4300 THEN JsonTooLong
    ELSE JsonOk(IntOf(from > i, Trim(DigitsOfText(SubSeq(s, from, iend - 1)))), end)

\* the number at i whose digits go from from to before iend
NumberOf(s, i, from, iend) == NumberValue(s, i, from, iend, ExpEnd(s, FracEnd(s, iend)))

\* the number at i whose digits start at from: a zero, or digits that
\* start with none
NumberFrom(s, i, from) ==
    IF CharAt(s, from) \notin Digit THEN JsonFail
    ELSE NumberOf(s, i, from, IF Ch(s, from) = Ord["0"] THEN from + 1 ELSE DigitRun(s, from))

\* (-?(?:0|[1-9]\d*))(\.\d+)?([eE][-+]?\d+)? at i
JsonNumber(s, i) == NumberFrom(s, i, IF CharAt(s, i) = Ord["-"] THEN i + 1 ELSE i)

\* an array or an object that is being read: the elements read, or the
\* members read and the key of the one that is being read
ArrayFrame == [obj |-> FALSE, acc |-> << >>, keys |-> << >>, f |-> EmptyDict, key |-> << >>]

ObjectFrame == [obj |-> TRUE, acc |-> << >>, keys |-> << >>, f |-> EmptyDict, key |-> << >>]

\* the frame with one more value: an element, or the member of the key;
\* a key set again keeps its place
WithValue(frame, val) ==
    IF frame.obj
    THEN [frame EXCEPT !.keys = IF frame.key \in DOMAIN frame.f THEN @ ELSE Append(@, frame.key),
                       !.f = (frame.key :> val) @@ @]
    ELSE [frame EXCEPT !.acc = Append(@, val)]

\* the array or the object of a frame
FrameValue(frame) == IF frame.obj THEN Dict(frame.keys, frame.f) ELSE Arr(frame.acc)

\* the character that closes it
FrameEnd(frame) == IF frame.obj THEN Ord["}"] ELSE Ord["]"]

\* the scanner at work: the position at, the arrays and objects that are
\* open, the innermost last, what comes next (a value; the first element or
\* key of what was opened, or its end; a key; what follows the value val)
Scanning(at, open, want, val) ==
    [done |-> FALSE, at |-> at, open |-> open, want |-> want, val |-> val, out |-> JsonFail]

\* the scanner once it has returned or raised
Scanned(r) ==
    [done |-> TRUE, at |-> 0, open |-> << >>, want |-> "none", val |-> None, out |-> r]

Innermost(st) == st.open[Len(st.open)]

Closed(st) == SubSeq(st.open, 1, Len(st.open) - 1)

\* the value at i that is not an array or an object
JsonAtom(s, i) ==
    CASE CharAt(s, i) = Ord["\""] -> JsonString(s, i + 1, << >>)
      [] StartsAt(s, i, T("null")) -> JsonOk(None, i + 4)
      [] StartsAt(s, i, T("true")) -> JsonOk(Bool(TRUE), i + 4)
      [] StartsAt(s, i, T("false")) -> JsonOk(Bool(FALSE), i + 5)
      [] StartsAt(s, i, T("NaN")) -> JsonOk(NaN, i + 3)
      [] StartsAt(s, i, T("Infinity")) -> JsonOk(Inf(1), i + 8)
      [] StartsAt(s, i, T("-Infinity")) -> JsonOk(Inf(-1), i + 9)
      [] OTHER -> JsonNumber(s, i)

\* the scanner after the value r
AfterAtom(st, r) == IF ~r.ok THEN Scanned(r) ELSE Scanning(r.end, st.open, "after", r.v)

\* the value that starts at st.at: an object or an array counts as a call
\* of the interpreter, and is a RecursionError when room of them are open
JsonValue(s, st, room) ==
    IF CharAt(s, st.at) \in {Ord["{"], Ord["["]}
    THEN IF Len(st.open) >= room THEN Scanned(JsonTooDeep)
         ELSE Scanning(SkipSpace(s, st.at + 1),
                       Append(st.open, IF Ch(s, st.at) = Ord["{"] THEN ObjectFrame ELSE ArrayFrame),
                       "first", None)
    ELSE AfterAtom(st, JsonAtom(s, st.at))

AfterColon(s, st, key, colon) ==
    IF CharAt(s, colon) # Ord[":"] THEN Scanned(JsonFail)
    ELSE Scanning(SkipSpace(s, colon + 1),
                  Append(Closed(st), [Innermost(st) EXCEPT !.key = key]), "value", None)

AfterKey(s, st, key) ==
    IF ~key.ok THEN Scanned(key) ELSE AfterColon(s, st, key.v.v, SkipSpace(s, key.end))

\* the member of an object whose key is at st.at, up to its value
JsonMembers(s, st) ==
    IF CharAt(s, st.at) # Ord["\""] THEN Scanned(JsonFail)
    ELSE AfterKey(s, st, JsonString(s, st.at + 1, << >>))

\* the object whose first member, or closing brace, is at st.at
JsonObject(s, st) ==
    IF CharAt(s, st.at) = Ord["}"]
    THEN Scanning(st.at + 1, Closed(st), "after", Dict(<< >>, EmptyDict))
    ELSE JsonMembers(s, st)

\* the array whose first element, or closing bracket, is at st.at
JsonArray(s, st, room) ==
    IF CharAt(s, st.at) = Ord["]"]
    THEN Scanning(st.at + 1, Closed(st), "after", Arr(<< >>))
    ELSE JsonValue(s, st, room)

\* after a value of the array or object of frame, which holds it: its end at
\* next, or a comma and an element or a member
NextValue(s, st, frame, next) ==
    IF CharAt(s, next) = FrameEnd(frame)
    THEN Scanning(next + 1, Closed(st), "after", FrameValue(frame))
    ELSE IF CharAt(s, next) = Ord[","]
    THEN Scanning(SkipSpace(s, next + 1), Append(Closed(st), frame),
                  IF frame.obj THEN "key" ELSE "value", None)
    ELSE Scanned(JsonFail)

\* after the value st.val: it is what the text holds when nothing is open,
\* else one more value of the innermost array or object
AfterValue(s, st) ==
    IF Len(st.open) = 0 THEN Scanned(JsonOk(st.val, st.at))
    ELSE NextValue(s, st, WithValue(Innermost(st), st.val), SkipSpace(s, st.at))

\* one step of the scanner
ScanStep(s, st, room) ==
    CASE st.want = "value" -> JsonValue(s, st, room)
      [] st.want = "first" ->
           IF Innermost(st).obj THEN JsonObject(s, st) ELSE JsonArray(s, st, room)
      [] st.want = "key" -> JsonMembers(s, st)
      [] OTHER -> AfterValue(s, st)

RECURSIVE ScanOnce(_, _, _, _)
\* n steps of the scanner at most from st on
ScanOnce(s, st, room, n) ==
    IF st.done THEN st
    ELSE IF n <= 1 THEN ScanStep(s, st, room)
    ELSE ScanOnce(s, ScanOnce(s, st, room, n \div 2), room, n - (n \div 2))

\* the value that starts at i, nested room deep at most: every step reads a
\* character or is the last
JsonDecode(s, i, room) ==
    ScanOnce(s, Scanning(i, << >>, "value", None), room, Len(s) + 2).out

\* the value r read from s, when only white space follows it
WholeValue(s, r) ==
    IF r.ok /\ SkipSpace(s, r.end) # Len(s) + 1 THEN [ok |-> FALSE, v |-> JsonFail.v]
    ELSE [ok |-> r.ok, v |-> r.v]

\* the byte order mark
ByteOrderMark == 65279

\* json.loads(s), called where `stack` calls are under way: [ok, v]; a text
\* that starts with a byte order mark is not read
JsonLoads(s, stack) ==
    IF CharAt(s, 1) = ByteOrderMark THEN [ok |-> FALSE, v |-> JsonFail.v]
    ELSE WholeValue(s, JsonDecode(s, SkipSpace(s, 1), JsonDepth(stack)))

(***************************************************************************)
(* parse_claude_response_enhanced                                          *)
(***************************************************************************)
Returns(v) == [k |-> "return", v |-> v]

Raises(e) == [k |-> "raise", v |-> e]

\* x in data, for a key or element x that is a str
HasKey(data, x) ==
    CASE data.k = "obj" -> x \in DOMAIN data.v
      [] data.k = "arr" -> \E j \in 1..Len(data.v) : SameValue(data.v[j], Str(x))
      [] data.k = "str" -> Contains(data.v, x)
      [] OTHER -> FALSE

\* len(x): [ok, n]; not ok is TypeError
PyLen(x) ==
    CASE x.k \in {"arr", "str"} -> [ok |-> TRUE, n |-> Len(x.v)]
      [] x.k = "obj" -> [ok |-> TRUE, n |-> Cardinality(DOMAIN x.v)]
      [] OTHER -> [ok |-> FALSE, n |-> 0]

\* data[key] = val: a new key comes last
SetItem(data, key, val) ==
    Dict(IF key \in DOMAIN data.v THEN data.keys ELSE Append(data.keys, key),
         (key :> val) @@ data.v)

\* hasDetailedItems is added as len(lineItems) > 0, n the length [ok, n]
WithDetailFlag(data, n) ==
    IF n.ok THEN Returns(SetItem(data, T("hasDetailedItems"), Bool(n.n > 0)))
    ELSE Raises("TypeError")

\* if 'hasDetailedItems' not in data
EnsureDetailFlag(data) ==
    IF HasKey(data, T("hasDetailedItems")) THEN Returns(data)
    ELSE IF data.k # "obj" THEN Raises("AttributeError")
    ELSE WithDetailFlag(data, PyLen(data.v[T("lineItems")]))

\* the lines after each json.loads: lineItems and hasDetailedItems are added
\* when the keys are missing; what is not a dict cannot take them
EnsureFields(data) ==
    IF data.k \notin {"obj", "arr", "str"} THEN Raises("TypeError")
    ELSE IF HasKey(data, T("lineItems")) THEN EnsureDetailFlag(data)
    ELSE IF data.k # "obj" THEN Raises("TypeError")
    ELSE EnsureDetailFlag(SetItem(data, T("lineItems"), Arr(<< >>)))

\* ```: three grave accents
Fence == << GraveAccent, GraveAccent, GraveAccent >>

FenceOpen == << Lit(Fence), OptAlt(<< T("json") >>), Cls(Space, 0, -1) >>

FenceClose == << Lit(Fence), Cls(Space, 0, -1), EndAnchor >>

StripFences(resp) ==
    Strip(ReSubEmpty(FenceClose, ReSubEmpty(FenceOpen, resp, FALSE), FALSE))

\* \{.*?"amount".*?\} under re.DOTALL
EmbeddedObject == << Lit(T("{")), LazyAny, Lit(T("\"amount\"")), LazyAny, Lit(T("}")) >>

NumberField(name) == << Lit(T("\"" \o name \o "\":")), Cls(Space, 0, -1), GroupOpen,
                        Cls(Digit \cup {Ord["."]}, 1, -1), GroupClose >>

StringField(name) == << Lit(T("\"" \o name \o "\":")), Cls(Space, 0, -1), Lit(T("\"")),
                        GroupOpen, NotCls({Ord["\""]}, 1, -1), GroupClose, Lit(T("\"")) >>

\* the dict of method 4
ManualDict(amount, vendor, category, confidence, currency) ==
    DictLiteral(ReceiptKeys,
         [amount     |-> amount,
          vendor     |-> Str(vendor),
          category   |-> Str(category),
          confidence |-> confidence,
          currency   |-> Str(currency),
          date       |-> None,
          lineItems  |-> Arr(<< >>),
          subtotal   |-> None,
          totalTax   |-> None,
          hasDetailedItems |-> Bool(FALSE)])

\* the dict of the converted numbers; a conversion that raises is caught and
\* the function returns None
ManualResult(amount, vendor, category, confidence, currency) ==
    IF amount.ok /\ confidence.ok
    THEN Returns(ManualDict(amount.v, vendor, category, confidence.v, currency))
    ELSE Returns(None)

\* group 1 of the match m, or the default when there is none
GroupOr(s, m, default) == IF m.ok THEN Group(s, m, 1) ELSE default

\* float(group 1) of the match m, or the default when there is none
FloatGroupOr(s, m, default) ==
    IF m.ok THEN FloatOfStr(Group(s, m, 1)) ELSE AFloat(default)

\* the dict of the five matches, when the first three matched
ManualFields(resp, amount_match, vendor_match, category_match, confidence_match, currency_match) ==
    IF amount_match.ok /\ vendor_match.ok /\ category_match.ok
    THEN ManualResult(FloatOfStr(Group(resp, amount_match, 1)),
                      Group(resp, vendor_match, 1),
                      Group(resp, category_match, 1),
                      FloatGroupOr(resp, confidence_match, Num(70)),
                      GroupOr(resp, currency_match, T("GBP")))
    ELSE Returns(None)

\* re.search of a field pattern in the response
FieldSearch(field, resp) == ReSearch(field, resp, FALSE)

\* method 4: the fields read one by one from the raw text
ManualExtraction(resp) ==
    ManualFields(resp, FieldSearch(NumberField("amount"), resp),
                 FieldSearch(StringField("vendor"), resp),
                 FieldSearch(StringField("category"), resp),
                 FieldSearch(NumberField("confidence"), resp),
                 FieldSearch(StringField("currency"), resp))

\* json.loads raised what except json.JSONDecodeError does not catch
Uncaught(r) == ~r.ok /\ r.v.v # "JSONDecodeError"

\* method 3 on the text json_match found, then method 4
ParseMatched(resp, json_match, inner) ==
    IF json_match.ok /\ inner.ok THEN EnsureFields(inner.v)
    ELSE IF json_match.ok /\ Uncaught(inner) THEN Raises(inner.v.v)
    ELSE ManualExtraction(resp)

\* the text of a match, the empty text when there is none
MatchText(s, m) == IF m.ok THEN SubSeq(s, m.start, m.end - 1) ELSE << >>

ParseFound(resp, json_match, stack) ==
    ParseMatched(resp, json_match, JsonLoads(MatchText(resp, json_match), stack))

\* method 3, then method 4
ParseEmbedded(resp, stack) == ParseFound(resp, FieldSearch(EmbeddedObject, resp), stack)

\* method 2, then the next ones
ParseCleaned(resp, cleaned, stack) ==
    IF cleaned.ok THEN EnsureFields(cleaned.v)
    ELSE IF Uncaught(cleaned) THEN Raises(cleaned.v.v)
    ELSE ParseEmbedded(resp, stack)

\* method 1, then the next ones
ParseDirect(resp, direct, stack) ==
    IF direct.ok THEN EnsureFields(direct.v)
    ELSE IF Uncaught(direct) THEN Raises(direct.v.v)
    ELSE ParseCleaned(resp, JsonLoads(StripFences(resp), stack), stack)

\* [k |-> "return", v |-> the dict or None] or [k |-> "raise", v |-> the
\* exception]; `stack` calls are under way in it, its own counted, and a
\* response nested deeper than json.loads reads there is a RecursionError,
\* which no except clause of it names
parse_claude_response_enhanced(resp, stack) == ParseDirect(resp, JsonLoads(resp, stack), stack)

(***************************************************************************)
(* validate_receipt_data_enhanced                                          *)
(***************************************************************************)
valid_categories == {T("Food"), T("Office"), T("Travel"), T("Equipment"),
                     T("Entertainment"), T("Fuel"), T("Healthcare"), T("Other")}

MaxAmount == 1000000

\* bool(x)
Truthy(x) ==
    CASE x.k = "null" -> FALSE
      [] x.k = "bool" -> x.v
      [] x.k \in {"int", "float"} -> x.v.digits # << >>
      [] x.k \in {"nan", "inf"} -> TRUE
      [] x.k = "str"  -> x.v # << >>
      [] x.k = "arr"  -> x.v # << >>
      [] x.k = "obj"  -> DOMAIN x.v # {}

\* amount < 0 or amount > 1000000
AmountOutOfBounds(amount) ==
    FloatLt(amount, Zero(FALSE)) \/ FloatLt(Num(100 * MaxAmount), amount)

\* what the conversion f = float(x) in a try leads to: "True" when the
\* function goes on, "False" when the ValueError or TypeError is caught, and
\* the name of an exception that is not caught
Converts(f) ==
    IF f.ok THEN "True"
    ELSE IF f.v.v \in {"ValueError", "TypeError"} THEN "False"
    ELSE f.v.v

\* the check of the amount f = float(data['amount'])
AmountCheck(f) == IF f.ok /\ AmountOutOfBounds(f.v) THEN "False" ELSE Converts(f)

\* the first of the outcomes that is not "True"
FirstFailure(outcomes) ==
    IF \A j \in 1..Len(outcomes) : outcomes[j] = "True" THEN "True"
    ELSE outcomes[SetMin({ j \in 1..Len(outcomes) : outcomes[j] # "True" })]

numeric_fields == << T("quantity"), T("unitPrice"), T("subtotal") >>

\* float(item[field]) if field in item
FieldCheck(item, field) ==
    IF field \in DOMAIN item.v THEN Converts(FloatOf(item.v[field])) ELSE "True"

\* the checks of a line item, in the order they are made
ItemChecks(item) ==
    IF item.k # "obj" \/ T("description") \notin DOMAIN item.v THEN << "False" >>
    ELSE [j \in 1..Len(numeric_fields) |-> FieldCheck(item, numeric_fields[j])]

LineItemCheck(item) == FirstFailure(ItemChecks(item))

\* the checks of the line items, when there are some
LineItemsCheck(data) ==
    IF ~(T("lineItems") \in DOMAIN data.v /\ Truthy(data.v[T("lineItems")])) THEN "True"
    ELSE IF data.v[T("lineItems")].k # "arr" THEN "False"
    ELSE FirstFailure([j \in 1..Len(data.v[T("lineItems")].v) |->
                          LineItemCheck(data.v[T("lineItems")].v[j])])

\* "True", "False", or the name of the exception raised: OverflowError when
\* a number is an int beyond the floats, AttributeError when vendor is a
\* truthy value that is no str
validate_receipt_data_enhanced(data) ==
    IF data.k # "obj" THEN "False"
    ELSE IF ~({T("amount"), T("vendor"), T("category")} \subseteq DOMAIN data.v) THEN "False"
    ELSE IF AmountCheck(FloatOf(data.v[T("amount")])) # "True"
    THEN AmountCheck(FloatOf(data.v[T("amount")]))
    ELSE IF ~(data.v[T("category")].k = "str" /\ data.v[T("category")].v \in valid_categories)
         THEN "False"
    ELSE IF ~Truthy(data.v[T("vendor")]) THEN "False"
    ELSE IF data.v[T("vendor")].k # "str" THEN "AttributeError"
    ELSE IF Len(Strip(data.v[T("vendor")].v)) < 2 THEN "False"
    ELSE LineItemsCheck(data)

(***************************************************************************)
(* categorize_expense_enhanced: the outcome of one pass of its loop        *)
(***************************************************************************)
max_retries == 2

Continue == [k |-> "continue", v |-> "continue"]

\* the candidate after validate_receipt_data_enhanced answered valid
Validated(candidate, valid) ==
    IF valid = "True" THEN Returns(candidate)
    ELSE IF valid = "False" THEN Continue
    ELSE Raises(valid)

\* the rest of the try after parse_claude_response_enhanced
Parsed(parsed) ==
    IF parsed.k = "raise" THEN parsed
    ELSE IF ~Truthy(parsed.v) THEN Continue
    ELSE Validated(parsed.v, validate_receipt_data_enhanced(parsed.v))

\* the body of the try: a reply of the backend is an exception it raised or
\* the text of its completion; `stack` calls are under way in
\* categorize_expense_enhanced, its own counted, and the call of
\* parse_claude_response_enhanced is one more
TryBody(r, stack) ==
    IF r.k = "raise" THEN Raises(r.v)
    ELSE Parsed(parse_claude_response_enhanced(Strip(r.v), stack + 1))

\* an except clause that names the error of the backend client only
CaughtOnlyClientError(e) == e = "ClientError"

\* except Exception: every exception of the body is one
CaughtByExcept(e) == TRUE

\* the exception o of the body is caught and the loop goes on; what is not
\* caught, and what is no exception, is left as it is
Handled(o) == IF o.k = "raise" /\ CaughtByExcept(o.v) THEN Continue ELSE o

\* a loop that runs once more than max_retries
OneMoreAttempt(a) == a <= max_retries

\* for attempt in range(max_retries)
MoreAttempts(a) == a < max_retries

\* what the pass printed: the exception, or the validation failure
Printed(o) == IF o.k = "raise" THEN o.v ELSE IF o.k = "continue" THEN "rejected" ELSE "none"

\* a pass whose try ended as o: its outcome and what it printed
Pass(o) == [outcome |-> Handled(o), failure |-> Printed(o)]

(***************************************************************************)
(* extract_text_from_image and store_receipt_data                          *)
(***************************************************************************)
\* a Textract outcome is an exception or the LINE blocks of the response
extract_text_from_image(out) ==
    IF out.k = "raise" THEN T("OCR_FAILED") ELSE JoinLines(out.v)

\* a test that only takes an empty text for a failed OCR
IsEmptyText(extracted_text) == extracted_text = << >>

\* if extracted_text == "OCR_FAILED"
IsOcrFailed(extracted_text) == extracted_text = T("OCR_FAILED")

\* data.get(key, default)
Get(data, key, default) == IF key \in DOMAIN data.v THEN data.v[key] ELSE default

\* a key a dict does not have
Absent == [k |-> "absent", v |-> << >>]

\* Decimal(str(data[key])) when data.get(key) is truthy, else no attribute
Optional(data, key) ==
    IF Truthy(Get(data, key, None)) THEN DecimalOf(data.v[key]) ELSE AFloat(Absent)

\* the dict of a line item, each number a Decimal conversion [ok, v]; what
\* is no dict has no get
StoredLineItem(item) ==
    IF item.k # "obj" THEN Failed("AttributeError")
    ELSE AFloat([description |-> AFloat(Str(PyStr(Get(item, T("description"), Str(<< >>))))),
                 quantity    |-> DecimalOf(Get(item, T("quantity"), PyInt(1))),
                 unitPrice   |-> DecimalOf(Get(item, T("unitPrice"), PyInt(0))),
                 subtotal    |-> DecimalOf(Get(item, T("subtotal"), PyInt(0))),
                 taxRate     |-> Optional(item, T("taxRate")),
                 taxAmount   |-> Optional(item, T("taxAmount"))])

\* for item in processed_data['lineItems']: the items of a list, the
\* characters of a str, the keys of a dict; [ok, v], not ok is TypeError
Iterated(given) ==
    CASE given.k = "arr" -> [ok |-> TRUE, v |-> given.v]
      [] given.k = "str" -> [ok |-> TRUE, v |-> [j \in 1..Len(given.v) |-> Str(<< Ch(given.v, j) >>)]]
      [] given.k = "obj" -> [ok |-> TRUE, v |-> [j \in 1..Len(given.keys) |-> Str(given.keys[j])]]
      [] OTHER -> [ok |-> FALSE, v |-> << >>]

\* the conversions of the line items given
StoredEach(given) ==
    IF Truthy(given) THEN [j \in 1..Len(Iterated(given).v) |-> StoredLineItem(Iterated(given).v[j])]
    ELSE << >>

\* the line items of the record, each the conversions of an item
StoredLineItems(data) == StoredEach(Get(data, T("lineItems"), None))

\* the attributes of a stored line item, in the order they are converted
item_fields == << "description", "quantity", "unitPrice", "subtotal", "taxRate", "taxAmount" >>

\* "True" for a conversion that succeeds, else the name of its exception
Succeeds(c) == IF c.ok THEN "True" ELSE c.v.v

\* the first exception of the conversions of an item, "True" when none
ItemOutcome(item) ==
    IF ~item.ok THEN Succeeds(item)
    ELSE FirstFailure([j \in 1..Len(item_fields) |-> Succeeds(item.v[item_fields[j]])])

\* the first exception of the loop over the line items, "True" when none
LineItemsOutcome(given, items) ==
    IF Truthy(given) /\ ~Iterated(given).ok THEN "TypeError"
    ELSE FirstFailure([j \in 1..Len(items) |-> ItemOutcome(items[j])])

\* the first exception store_receipt_data raises before put_item, "True"
\* when none: the data has a get, the line items can be gone through and
\* every Decimal conversion succeeds
StoreOutcome(data) ==
    IF data.k # "obj" THEN "AttributeError"
    ELSE FirstFailure(<< LineItemsOutcome(Get(data, T("lineItems"), None), StoredLineItems(data)),
                         Succeeds(DecimalOf(Get(data, T("amount"), Zero(FALSE)))),
                         Succeeds(DecimalOf(Get(data, T("confidence"), Zero(FALSE)))),
                         Succeeds(Optional(data, T("subtotal"))),
                         Succeeds(Optional(data, T("totalTax"))),
                         Succeeds(Optional(data, T("discounts"))) >>)

ConversionsOk(data) == StoreOutcome(data) = "True"

OriginalTextCap == 2000

\* the converted line items, as they are stored; Absent is an attribute the
\* item does not have
Converted(items) ==
    [j \in 1..Len(items) |->
       [field \in { item_fields[f] : f \in 1..Len(item_fields) } |-> items[j].v[field].v]]

ItemWith(receipt_id, s3_key, raw_text, data, now, line_items) ==
    [receiptId        |-> receipt_id,
     uploadTimestamp  |-> now,
     originalText     |-> Prefix(raw_text, OriginalTextCap),
     s3Key            |-> s3_key,
     amount           |-> DecimalOf(Get(data, T("amount"), Zero(FALSE))).v,
     vendor           |-> Get(data, T("vendor"), Str(T("Unknown"))),
     category         |-> Get(data, T("category"), Str(T("Other"))),
     confidence       |-> DecimalOf(Get(data, T("confidence"), Zero(FALSE))).v,
     currency         |-> Get(data, T("currency"), Str(T("GBP"))),
     receiptDate      |-> Get(data, T("date"), None),
     lineItems        |-> line_items,
     hasDetailedItems |-> Get(data, T("hasDetailedItems"), Bool(Len(line_items) > 0)),
     processingMethod |-> T("Enhanced Universal Textract + Claude AI"),
     subtotal         |-> Optional(data, T("subtotal")).v,
     totalTax         |-> Optional(data, T("totalTax")).v,
     discounts        |-> Optional(data, T("discounts")).v]

\* the item handed to put_item; the upload time is the rank of the write
ReceiptItem(receipt_id, s3_key, raw_text, data, now) ==
    ItemWith(receipt_id, s3_key, raw_text, data, now, Converted(StoredLineItems(data)))

(***************************************************************************)
(* The inputs of the model.                                                *)
(***************************************************************************)
MaxRecords == 2

MaxLines == 3

ScenarioLines == << T("TESCO STORES LTD"), T("..."), T("TOTAL  £15.43") >>

\* what Textract answers for an image
TextractOutcomes ==
    { [k |-> "raise", v |-> << "ClientError" >>],
      [k |-> "lines", v |-> ScenarioLines],
      [k |-> "lines", v |-> << T("Acme Hardware"), T("GRAND TOTAL 2000000") >>] }

\* a text whose arrays are nested deeper than json.loads reads them
DeepObject == T("{\"amount\": ") \o [j \in 1..RecursionLimit |-> Ord["["]]

\* the calls under way in a function that a module calls, its own counted
ModuleFrames == 2

\* the most calls under way in the function a run starts with: what calls
\* it is a module, or a function that a module calls
MaxFrames == 3

\* the calls that can be under way in the function a run starts with
EntryFrames == ModuleFrames..MaxFrames

\* a candidate that is valid but for how deep it is nested: an object with
\* arrays in it, n deep in all
NestedObject(n) ==
    T("{\"amount\": 5, \"vendor\": \"Costa\", \"category\": \"Food\", \"notes\": ")
    \o [j \in 1..n - 1 |-> Ord["["]] \o [j \in 1..n - 1 |-> Ord["]"]] \o T("}")

\* the deepest nesting json.loads reads in parse_claude_response_enhanced
\* when lambda_handler, which calls it through categorize_expense_enhanced,
\* is called by a module; one call more beneath the handler and it is too
\* deep
DeepestRead == JsonDepth(ModuleFrames + 2)

\* what the backend answers to a prompt
BedrockReplies ==
    { [k |-> "raise", v |-> "ClientError"],
      [k |-> "text", v |-> DeepObject],
      [k |-> "text", v |-> NestedObject(DeepestRead)],
      [k |-> "text", v |-> T("{\"amount\": \"\\u0665\", \"vendor\": \"Costa\", \"category\": \"Food\"}")],
      [k |-> "text", v |-> T("{\"amount\": 5, \"vendor\": \"\\u2003\\u2003\", \"category\": \"Food\"}")],
      [k |-> "text", v |-> T("{\"amount\": 8.20, \"vendor\": \"Costa Coffee\", \"category\": \"Food\", \"confidence\": 0.92}")],
      [k |-> "text", v |-> T("{\"amount\": 5, \"vendor\": \"Costa\", \"category\": \"Food\", \"lineItems\": [], \"hasDetailedItems\": true}")],
      [k |-> "text", v |-> T("{\"amount\": 5, \"vendor\": \"Costa\", \"category\": \"food\"}")],
      [k |-> "text", v |-> T("I could not read this receipt.")],
      [k |-> "text", v |-> T("[1]")],
      [k |-> "text", v |-> T("{\"amount\": 5, \"vendor\": 12, \"category\": \"Food\"}")],
      [k |-> "text", v |-> T("{\"amount\": 1e3, \"vendor\": \"Costa\", \"category\": \"Food\", \"confidence\": \"1_0\"}")],
      [k |-> "text", v |-> T("{\"amount\": 5, \"vendor\": \"Costa\", \"category\": \"Food\", \"confidence\": \"high\"}")] }

\* the key of the i-th record of the event
KeyOf(i) == T("receipts/" \o ToString(i) \o ".jpg")

\* the lines a receipt of the model is made of
LinePool == { T("TESCO STORES LTD"), T("Milk 1.20"), T("TOTAL  £15.43"), T("Total: $9.00"),
              T("AMOUNT DUE 5"), T("12/03/2024") }

RECURSIVE LineSeqs(_)
\* the sequences of at most n lines of the pool
LineSeqs(n) ==
    IF n = 0 THEN { << >> }
    ELSE LET shorter == LineSeqs(n - 1)
         IN  shorter \cup { Append(ls, l) : ls \in shorter, l \in LinePool }

\* the texts the OCR step can hand on
PipelineTexts == { extract_text_from_image(out) : out \in TextractOutcomes }

\* the texts the heuristic extractor is applied to
FallbackTexts == { JoinLines(ls) : ls \in LineSeqs(MaxLines) } \cup PipelineTexts

\* intelligent_fallback_extraction on each text of the pipeline, computed once
FallbackResult == [t \in PipelineTexts |-> intelligent_fallback_extraction(t)]

\* the names, of those given, that f has a value for
KeysThere(names, f) == SelectSeq(names, LAMBDA name : f[name].k # "absent")

\* the dict of a record of fields, each one there or not
DictOf(names, f) == DictLiteral(KeysThere(names, f), f)

\* the candidate of the four fields given, each one there or not
Candidate(amount, vendor, category, line_items) ==
    DictOf(<< "amount", "vendor", "category", "lineItems" >>,
           [amount |-> amount, vendor |-> vendor, category |-> category,
            lineItems |-> line_items])

\* characters beyond ASCII: a space that strip() removes and one more, and
\* a digit that float() reads as 5
NoBreakSpace == 160

EmSpace == 8195

ArabicFive == 1637

\* an int beyond the floats
HugeInt == IntOf(FALSE, << 1 >> \o Zeros(400))

AmountPool == { Absent, None, Zero(FALSE), Num(-1), Num(1250), Num(100 * MaxAmount),
                Num(100 * MaxAmount + 1), NaN, Inf(1), Inf(-1), Bool(TRUE), PyInt(5),
                HugeInt, Str(T("12.5")), Str(T("1e3")), Str(T("1000000.001")), Str(T("abc")),
                Str(T("nan")), Str(<< ArabicFive >>), Arr(<< >>) }

VendorPool == { Absent, None, Str(T("Costa Coffee")), Str(T("A")), Str(T(" B ")),
                Str(<< NoBreakSpace, Ord["A"], NoBreakSpace >>), Str(<< >>),
                Str(<< EmSpace, EmSpace >>), PyInt(12) }

CategoryPool == { Absent, None, Str(T("Food")), Str(T("food")), Str(T("Other")) }

LineItemsPool ==
    { Absent, None, Arr(<< >>), Str(T("abc")),
      Arr(<< LineItem(T("Latte"), Num(350)) >>),
      Arr(<< DictLiteral(<< "quantity" >>, [quantity |-> PyInt(1)]) >>),
      Arr(<< DictLiteral(<< "description", "quantity" >>,
                         [description |-> Str(T("Tea")), quantity |-> Str(T("two"))]) >>),
      Arr(<< DictLiteral(<< "description", "subtotal" >>,
                         [description |-> Str(<< >>), subtotal |-> Num(250)]) >>) }

\* the values validate_receipt_data_enhanced is applied to
Candidates ==
    { Candidate(a, v, c, l) : a \in AmountPool, v \in VendorPool, c \in CategoryPool,
                              l \in LineItemsPool } \cup { None, Arr(<< >>) }

\* the pass of the loop for each reply of the model, computed once for each
\* number of calls under way in lambda_handler; categorize_expense_enhanced
\* is one call more
AttemptResult == [c \in EntryFrames |-> [r \in BedrockReplies |-> Pass(TryBody(r, c + 1))]]

(***************************************************************************)
(* lambda_handler of the OCR processor, one action per call it waits for.  *)
(***************************************************************************)
NoResponse == [statusCode |-> 0, body |-> << >>]

\* no request is under way
AtRest == /\ nrec = 0
          /\ idx = 0
          /\ ocrRaised = FALSE
          /\ text = << >>
          /\ attempt = 0
          /\ calls = 0
          /\ fellBack = FALSE
          /\ failures = << >>
          /\ reply = [k |-> "none", v |-> << >>]
          /\ receipt_data = None
          /\ table = << >>
          /\ response = NoResponse
          /\ status = << >>
          /\ reads = 0
          /\ event = << >>
          /\ executions = << >>

\* the handler is called where some calls are under way already: those of
\* the runtime, which the source does not tell
Init == /\ pc = "idle"
        /\ AtRest
        /\ arg = << >>
        /\ ret = None
        /\ frames \in EntryFrames

\* json.dumps of a str without a character to escape
JsonDumps(s) == T("\"") \o s \o T("\"")

\* the handler returns; an exception stands in the body by its name
Return(code, body) ==
    /\ pc' = "done"
    /\ response' = [statusCode |-> code, body |-> JsonDumps(body)]

\* the handler is invoked with an event of n records
Invoke(n) ==
    /\ pc = "idle"
    /\ nrec' = n
    /\ idx' = 1
    /\ status' = [i \in 1..n |-> "pending"]
    /\ IF n = 0 THEN Return(200, T("Receipt processed successfully!"))
       ELSE pc' = "ocr" /\ UNCHANGED response
    /\ UNCHANGED <<ocrRaised, text, attempt, calls, fellBack, failures, reply,
                   receipt_data, table, arg, ret, others>>

\* Textract answers for the record at hand; a failed OCR ends the request
ExtractText(out) ==
    /\ pc = "ocr"
    /\ ocrRaised' = (out.k = "raise")
    /\ text' = extract_text_from_image(out)
    /\ attempt' = 0
    /\ calls' = 0
    /\ fellBack' = FALSE
    /\ failures' = << >>
    /\ reply' = [k |-> "none", v |-> << >>]
    /\ IF IsOcrFailed(text')
       THEN /\ Return(500, T("Failed to process receipt image"))
            /\ status' = [status EXCEPT ![idx] = "ocr_failed"]
       ELSE /\ pc' = "bedrock"
            /\ UNCHANGED <<response, status>>
    /\ UNCHANGED <<nrec, idx, receipt_data, table, arg, ret, others>>

\* the pass p is taken: its candidate is returned, or the loop goes on, or
\* its exception leaves the handler
Taken(p) ==
    CASE p.outcome.k = "return" ->
           /\ receipt_data' = p.outcome.v
           /\ pc' = "store"
           /\ UNCHANGED <<attempt, failures, response, status>>
      [] p.outcome.k = "continue" ->
           /\ attempt' = attempt + 1
           /\ failures' = Append(failures, p.failure)
           /\ UNCHANGED <<pc, receipt_data, response, status>>
      [] p.outcome.k = "raise" ->
           /\ Return(500, T("Error: " \o p.outcome.v))
           /\ status' = [status EXCEPT ![idx] = "error"]
           /\ UNCHANGED <<attempt, failures, receipt_data>>

\* one pass of the loop of categorize_expense_enhanced: the backend answers r
ClaudeAttempt(r) ==
    /\ pc = "bedrock"
    /\ MoreAttempts(attempt)
    /\ calls' = calls + 1
    /\ reply' = r
    /\ Taken(AttemptResult[frames][r])
    /\ UNCHANGED <<nrec, idx, ocrRaised, text, fellBack, table, arg, ret, others>>

\* the loop is over without a candidate: the heuristic extractor answers
Fallback ==
    /\ pc = "bedrock"
    /\ ~MoreAttempts(attempt)
    /\ fellBack' = TRUE
    /\ receipt_data' = FallbackResult[text]
    /\ pc' = "store"
    /\ UNCHANGED <<nrec, idx, ocrRaised, text, attempt, calls, failures, reply, table,
                   response, status, arg, ret, others>>

\* store_receipt_data, then the next record or the end of the loop; put_item
\* succeeds or raises
Store(put_ok) ==
    /\ pc = "store"
    /\ IF ConversionsOk(receipt_data) /\ put_ok
       THEN /\ table' = Append(table, ReceiptItem(idx, KeyOf(idx), text, receipt_data,
                                                  Len(table) + 1))
            /\ status' = [status EXCEPT ![idx] = IF fellBack THEN "fallback" ELSE "model"]
            /\ IF idx < nrec
               THEN idx' = idx + 1 /\ pc' = "ocr" /\ UNCHANGED response
               ELSE Return(200, T("Receipt processed successfully!")) /\ UNCHANGED idx
       ELSE /\ Return(500, T(IF ConversionsOk(receipt_data) THEN "Error: put_item"
                              ELSE "Error: " \o StoreOutcome(receipt_data)))
            /\ status' = [status EXCEPT ![idx] = "error"]
            /\ UNCHANGED <<table, idx>>
    /\ UNCHANGED <<nrec, ocrRaised, text, attempt, calls, fellBack, failures, reply,
                   receipt_data, arg, ret, others>>

Next ==
    \/ \E n \in 0..MaxRecords : Invoke(n)
    \/ \E out \in TextractOutcomes : ExtractText(out)
    \/ \E r \in BedrockReplies : ClaudeAttempt(r)
    \/ Fallback
    \/ \E put_ok \in BOOLEAN : Store(put_ok)

Spec == Init /\ [][Next]_vars

(***************************************************************************)
(* intelligent_fallback_extraction called on its own, on each text.        *)
(***************************************************************************)
\* texts for the choice of the amount: totals that more than one pattern
\* finds, and matches that are no number
AmountTexts ==
    { T("BALANCE ,\nTOTAL:5.00"),
      T("TOTAL ,\nAMOUNT DUE 5"),
      T("TOTAL 3.00\nGRAND TOTAL 9.00"),
      T("GRAND TOTAL: 7.50\n£9.00 CASH"),
      T("TOTAL 1,234.50\nBALANCE DUE 2.00"),
      T("Total") \o << NoBreakSpace >> \o T("5.999"),
      T("Thank you") }

InitFallback == /\ pc = "call"
                /\ AtRest
                /\ arg \in FallbackTexts \cup AmountTexts
                /\ ret = None
                /\ frames = ModuleFrames

CallFallback ==
    /\ pc = "call"
    /\ ret' = intelligent_fallback_extraction(arg)
    /\ pc' = "returned"
    /\ UNCHANGED <<nrec, idx, ocrRaised, text, attempt, calls, fellBack, failures, reply,
                   receipt_data, table, response, status, arg, others>>

NextFallback == CallFallback

SpecFallback == InitFallback /\ [][NextFallback]_vars

(***************************************************************************)
(* validate_receipt_data_enhanced called on its own, on each candidate.    *)
(***************************************************************************)
InitValidate == /\ pc = "call"
                /\ AtRest
                /\ arg \in Candidates
                /\ ret = None
                /\ frames = ModuleFrames

CallValidate ==
    /\ pc = "call"
    /\ ret' = validate_receipt_data_enhanced(arg)
    /\ pc' = "returned"
    /\ UNCHANGED <<nrec, idx, ocrRaised, text, attempt, calls, fellBack, failures, reply,
                   receipt_data, table, response, status, arg, others>>

NextValidate == CallValidate

SpecValidate == InitValidate /\ [][NextValidate]_vars
(***************************************************************************)
(* parse_claude_response_enhanced called on its own, on a JSON object with *)
(* prose before and after it.                                              *)
(***************************************************************************)
ProsePrefixes == { << >>, T("Here is the data: "), Fence \o T("json\n") }

ProseSuffixes == { << >>, T(" Hope it helps"), T("\n") \o Fence, T(" (see {note})") }

EmbeddedObjects ==
    { T("{\"amount\": 5, \"vendor\": \"Costa\", \"category\": \"Food\"}"),
      T("{\"amount\": 8.20, \"vendor\": \"Costa Coffee\", \"category\": \"Food\", \"currency\": \"EUR\", \"date\": \"2024-03-12\"}"),
      T("{\"amount\": 5, \"vendor\": \"Costa\", \"category\": \"Food\", \"lineItems\": [{\"description\": \"Latte\", \"subtotal\": 5}]}"),
      T("{\"lineItems\": [{\"description\": \"Latte\"}], \"amount\": 5, \"vendor\": \"Costa\", \"category\": \"Food\"}"),
      T("{\"amount\": 5, \"tax\": {\"rate\": 20}}"),
      T("{\"amount\": 1e3, \"vendor\": \"Costa\", \"category\": \"Food\"}"),
      T("{\"amount\": \"\\u0665\", \"vendor\": \"A\\u2003\", \"category\": \"Food\", \"note\": \"\\ud83d\\ude00\"}"),
      DeepObject,
      T("{\"vendor\": \"Costa\", \"category\": \"Food\"}") }

\* the responses the parser is applied to, each in its three parts
ParseInputs == [pre : ProsePrefixes, obj : EmbeddedObjects, suf : ProseSuffixes]

\* the response of three parts
ResponseOf(a) == a.pre \o a.obj \o a.suf

InitParse == /\ pc = "call"
             /\ AtRest
             /\ arg \in ParseInputs
             /\ ret = None
             /\ frames \in EntryFrames

CallParse ==
    /\ pc = "call"
    /\ ret' = parse_claude_response_enhanced(ResponseOf(arg), frames)
    /\ pc' = "returned"
    /\ UNCHANGED <<nrec, idx, ocrRaised, text, attempt, calls, fellBack, failures, reply,
                   receipt_data, table, response, status, arg, others>>

NextParse == CallParse

SpecParse == InitParse /\ [][NextParse]_vars

(***************************************************************************)
(* The query API: get_receipts_by_category, as lambda_handler routes a GET *)
(* of /receipts/category/<category> to it.  An item of the table is the    *)
(* dict a scan gives for it, a body is held as the value json.dumps is     *)
(* given, and an exception stands by its message, str(e).                  *)
(***************************************************************************)
\* the valid_categories of get_receipts_by_category, in the order of the list
api_valid_categories == << T("Food"), T("Office"), T("Travel"), T("Equipment"), T("Entertainment"),
                           T("Fuel"), T("Healthcare"), T("Other") >>

RECURSIVE JoinWith(_, _)
\* sep.join(words)
JoinWith(sep, words) ==
    IF words = << >> THEN << >>
    ELSE IF Len(words) = 1 THEN words[1]
    ELSE words[1] \o sep \o JoinWith(sep, Tail(words))

error_response(status_code, message) ==
    [statusCode |-> status_code, body |-> [error |-> message, statusCode |-> status_code]]

success_response(data) == [statusCode |-> 200, body |-> data]

\* a step that ended with the value v, and one that raised the exception of
\* the message e
Fine(v) == [ok |-> TRUE, v |-> v]

Broke(e) == [ok |-> FALSE, v |-> e]

\* the name of the type of a value, as a message writes it
TypeName(x) ==
    CASE x.k = "str"  -> T("str")
      [] x.k = "int"  -> T("int")
      [] x.k = "bool" -> T("bool")
      [] IsFloat(x)   -> T("float")
      [] x.k = "null" -> T("NoneType")
      [] x.k = "arr"  -> T("list")
      [] x.k = "obj"  -> T("dict")
      [] x.k = "dec"  -> T("decimal.Decimal")

RECURSIVE DecimalsConvert(_)
\* float() takes every Decimal there is in obj, in its lists and dicts too:
\* float() of a signaling NaN raises ValueError
DecimalsConvert(obj) ==
    CASE obj.k = "arr" -> \A j \in 1..Len(obj.v) : DecimalsConvert(obj.v[j])
      [] obj.k = "obj" -> \A key \in DOMAIN obj.v : DecimalsConvert(obj.v[key])
      [] obj.k = "dec" -> FloatOfDecimal(obj).ok
      [] OTHER -> TRUE

RECURSIVE convert_decimals(_)
\* convert_decimals(obj): a list and a dict are gone through, a Decimal
\* becomes a float, anything else is left as it is; where float() raises,
\* the exception stands for the float
convert_decimals(obj) ==
    CASE obj.k = "arr" -> Arr([j \in 1..Len(obj.v) |-> convert_decimals(obj.v[j])])
      [] obj.k = "obj" -> Dict(obj.keys, [key \in DOMAIN obj.v |-> convert_decimals(obj.v[key])])
      [] obj.k = "dec" -> FloatOfDecimal(obj).v
      [] OTHER -> obj

\* the places where the text a has another character than b, or one that b
\* has not
Differing(a, b) == { j \in 1..Len(a) : j > Len(b) \/ a[j] # b[j] }

\* -1, 0 or 1 as the str a is less than, equal to or greater than b: the
\* order of the code points
TextCmp(a, b) ==
    IF Differing(a, b) = {} THEN (IF Len(a) = Len(b) THEN 0 ELSE -1)
    ELSE IF SetMin(Differing(a, b)) > Len(b) THEN 1
    ELSE IF a[SetMin(Differing(a, b))] < b[SetMin(Differing(a, b))] THEN -1
    ELSE 1

IsNumber(x) == x.k \in {"int", "bool", "dec"} \/ IsFloat(x)

\* a nan, a NaN or an sNaN
IsNotANumber(x) == x.k = "nan" \/ (x.k = "dec" /\ x.v.special \in {"NaN", "sNaN"})

\* a number by its sign (-1, 0 or 1) and, exact, how far from zero it is
Quantity(sign, inf, c) == [sign |-> sign, inf |-> inf, c |-> c]

Nought == Quantity(0, FALSE, Dec(<< >>, 0))

\* the quantity of an int, a bool, a float or a Decimal that is a number or
\* an infinity
QuantityOf(x) ==
    CASE x.k = "bool" -> IF x.v THEN Quantity(1, FALSE, Dec(<< 1 >>, 0)) ELSE Nought
      [] x.k = "int" ->
           IF x.v.digits = << >> THEN Nought
           ELSE Quantity(IF x.v.neg THEN -1 ELSE 1, FALSE, Dec(x.v.digits, 0))
      [] x.k = "inf" -> Quantity(x.v, TRUE, Dec(<< >>, 0))
      [] x.k = "float" ->
           IF IsZero(x) THEN Nought
           ELSE Quantity(IF x.v.neg THEN -1 ELSE 1, FALSE, Exact(BinOf(x)))
      [] x.k = "dec" ->
           IF x.v.special = "Infinity"
           THEN Quantity(IF x.v.neg THEN -1 ELSE 1, TRUE, Dec(<< >>, 0))
           ELSE IF x.v.digits = << >> THEN Nought
           ELSE Quantity(IF x.v.neg THEN -1 ELSE 1, FALSE, Dec(x.v.digits, SmallExp(x.v.exp)))

\* -1, 0 or 1 as a is nearer to zero than b, as near or farther
FartherThan(a, b) ==
    CASE a.inf /\ b.inf -> 0
      [] a.inf -> 1
      [] b.inf -> -1
      [] OTHER -> DecCmp(a.c, b.c)

\* -1, 0 or 1 as the quantity a is less than, equal to or greater than b
QuantityCmp(a, b) ==
    IF a.sign # b.sign THEN (IF a.sign < b.sign THEN -1 ELSE 1)
    ELSE IF a.sign = 0 THEN 0
    ELSE a.sign * FartherThan(a, b)

\* x < y on numbers: with a Decimal, what is not a number is an
\* InvalidOperation; without one, every comparison with nan is false
NumberLt(x, y) ==
    IF IsNotANumber(x) \/ IsNotANumber(y)
    THEN (IF x.k = "dec" \/ y.k = "dec" THEN Broke(T("[<class 'decimal.InvalidOperation'>]"))
          ELSE Fine(FALSE))
    ELSE Fine(QuantityCmp(QuantityOf(x), QuantityOf(y)) < 0)

\* x < y on two sort keys: [ok, v], v the answer, or the message of the
\* exception; the order of two lists is left out
KeyLt(x, y) ==
    CASE x.k = "str" /\ y.k = "str" -> Fine(TextCmp(x.v, y.v) < 0)
      [] IsNumber(x) /\ IsNumber(y) -> NumberLt(x, y)
      [] /\ ~(x.k = "str" /\ y.k = "str")
         /\ ~(IsNumber(x) /\ IsNumber(y))
         /\ ~(x.k = "arr" /\ y.k = "arr") ->
           Broke(T("'<' not supported between instances of '") \o TypeName(x)
                 \o T("' and '") \o TypeName(y) \o T("'"))

\* the items with the keys they are sorted by: x.get('uploadTimestamp', '')
Keyed(items) ==
    [j \in 1..Len(items) |->
       [key |-> Get(items[j], T("uploadTimestamp"), Str(<< >>)), item |-> items[j]]]

Reversed(s) == [j \in 1..Len(s) |-> s[Len(s) + 1 - j]]

(***************************************************************************)
(* list.sort, as the interpreter does it (CPython 3.11, listsort): runs    *)
(* are counted, a short one is made minrun items long by binary insertion, *)
(* and the runs are merged.  The sort is a machine that goes from one      *)
(* comparison to the next, so that the comparisons are made in the order   *)
(* list.sort makes them and the first that raises ends it.  An array is    *)
(* indexed from 0, as in the source of the interpreter.                    *)
(***************************************************************************)
\* the length a merge has to win in a row before it gallops, at first
MIN_GALLOP == 7

\* s[i]
At(s, i) == s[i + 1]

\* s[i:i+n]
Slice(s, i, n) == SubSeq(s, i + 1, i + n)

\* s with s[i:i+len(items)] = items
Put(s, i, items) == SubSeq(s, 1, i) \o items \o SubSeq(s, i + Len(items) + 1, Len(s))

\* s with s[i:i+n] reversed
ReverseSlice(s, i, n) == Put(s, i, SubSeq(Reversed(Slice(s, i, n)), 1, n))

Least(a, b) == IF a < b THEN a ELSE b

\* l + ((r - l) >> 1)
Mid(l, r) == l + ((r - l) \div 2)

RECURSIVE MergeComputeMinrun(_, _)
\* merge_compute_minrun: n for fewer than 64 items, else between 32 and 64
MergeComputeMinrun(n, r) ==
    IF n >= 64 THEN MergeComputeMinrun(n \div 2, IF n % 2 = 1 THEN 1 ELSE r) ELSE n + r

RECURSIVE Powerloop(_, _, _, _)
\* powerloop: the bits of a/n and b/n, one at a time, until they differ
Powerloop(a, b, n, result) ==
    IF a >= n THEN Powerloop(2 * (a - n), 2 * (b - n), n, result + 1)
    ELSE IF b >= n THEN result + 1
    ELSE Powerloop(2 * a, 2 * b, n, result + 1)

\* the power of the boundary between a run of n1 items at s1 and the run of
\* n2 items behind it, in a list of n items
PowerOf(s1, n1, n2, n) == Powerloop(2 * s1 + n1, 2 * s1 + 2 * n1 + n2, n, 0)

\* the sort of the keyed items xs, before its first step.  a is the list, t
\* the temporary array of a merge, pending the stack of the runs that wait
\* for a merge; the rest is the variables of the functions of the sort
SortOf(xs) ==
    [pc |-> "count_run", a |-> SubSeq(xs, 1, Len(xs)), t |-> << >>, pending |-> << >>,
     min_gallop |-> MIN_GALLOP, minrun |-> MergeComputeMinrun(Len(xs), 0),
     lo |-> 0, nremaining |-> Len(xs), n |-> 0, descending |-> FALSE, p |-> 0,
     start |-> 0, hi |-> 0, l |-> 0, r |-> 0, power |-> 0, i |-> 0, back |-> "done",
     pa |-> 0, na |-> 0, pb |-> 0, nb |-> 0, basea |-> 0, baseb |-> 0, dest |-> 0,
     acount |-> 0, bcount |-> 0, mg |-> MIN_GALLOP,
     key |-> xs[1], arr |-> "a", base |-> 0, gn |-> 0, hint |-> 0, ofs |-> 0, lastofs |-> 0,
     maxofs |-> 0, k |-> 0, after |-> "done", error |-> << >>]

Going(st, to) == [st EXCEPT !.pc = to]

\* a comparison raised: the sort ends with its exception
Raising(st, lt) == [st EXCEPT !.pc = "raised", !.error = lt.v]

\* count_run: the run at lo descends when its second item is less than the
\* first
CountRunFirst(st, lt) ==
    IF ~lt.ok THEN Raising(st, lt)
    ELSE [st EXCEPT !.descending = lt.v, !.n = 2, !.p = st.lo + 2, !.pc = "count_more"]

CountRun(st) ==
    IF st.nremaining = 1 THEN [st EXCEPT !.descending = FALSE, !.n = 1, !.pc = "run_found"]
    ELSE CountRunFirst(st, KeyLt(At(st.a, st.lo + 1).key, At(st.a, st.lo).key))

\* the run goes on at p when the item there is less than the one before it
\* and the run descends, or is not less and the run does not
CountRunNext(st, lt) ==
    IF ~lt.ok THEN Raising(st, lt)
    ELSE IF lt.v = st.descending THEN [st EXCEPT !.p = @ + 1, !.n = @ + 1]
    ELSE Going(st, "run_found")

CountMore(st) ==
    IF st.p >= st.lo + st.nremaining THEN Going(st, "run_found")
    ELSE CountRunNext(st, KeyLt(At(st.a, st.p).key, At(st.a, st.p - 1).key))

\* if descending: reverse_sortslice
RunAscending(st) ==
    IF st.descending THEN [st EXCEPT !.a = ReverseSlice(@, st.lo, st.n)] ELSE st

\* min(minrun, nremaining)
Force(st) == IF st.nremaining <= st.minrun THEN st.nremaining ELSE st.minrun

\* a run shorter than minrun is extended by binarysort
RunExtended(st) ==
    IF st.n < st.minrun
    THEN [st EXCEPT !.start = st.lo + st.n, !.hi = st.lo + Force(st), !.n = Force(st),
                    !.pc = "binarysort"]
    ELSE Going(st, "found_new_run")

RunFound(st) == RunExtended(RunAscending(st))

\* binarysort: a[lo:start] is in order, and each item from start to hi is
\* put at its place
BinarySort(st) ==
    IF st.start >= st.hi THEN Going(st, "found_new_run")
    ELSE [st EXCEPT !.l = st.lo, !.r = st.start, !.pc = "binary_probe"]

\* the pivot a[start] put at l, the items from l on moved by one
PivotPlaced(st) ==
    [st EXCEPT !.a = Put(@, st.l, << At(st.a, st.start) >> \o Slice(st.a, st.l, st.start - st.l)),
               !.start = @ + 1, !.pc = "binarysort"]

Narrowed(st) == IF st.l < st.r THEN st ELSE PivotPlaced(st)

\* after a probe at p: the place is before p when the pivot is less than
\* the item there, else behind it
BinaryProbed(st, p, lt) ==
    IF ~lt.ok THEN Raising(st, lt)
    ELSE Narrowed(IF lt.v THEN [st EXCEPT !.r = p] ELSE [st EXCEPT !.l = p + 1])

BinaryProbe(st) ==
    BinaryProbed(st, Mid(st.l, st.r),
                 KeyLt(At(st.a, st.start).key, At(st.a, Mid(st.l, st.r)).key))

\* found_new_run: the power of the boundary before the new run, when a run
\* is pending
FoundNewRun(st) ==
    IF Len(st.pending) = 0 THEN Going(st, "push")
    ELSE [st EXCEPT !.power = PowerOf(st.pending[Len(st.pending)].base,
                                      st.pending[Len(st.pending)].len, st.n, Len(st.a)),
                    !.pc = "collapse"]

\* while the run before the last has a greater power, the two are merged
Collapse(st) ==
    IF Len(st.pending) > 1 /\ st.pending[Len(st.pending) - 1].power > st.power
    THEN [st EXCEPT !.i = Len(st.pending) - 2, !.back = "collapse", !.pc = "merge_at"]
    ELSE [st EXCEPT !.pending[Len(st.pending)].power = st.power, !.pc = "push"]

\* the new run is pushed on the stack, and the next is looked for
Push(st) ==
    [st EXCEPT !.pending = Append(@, [base |-> st.lo, len |-> st.n, power |-> 0]),
               !.lo = @ + st.n, !.nremaining = @ - st.n,
               !.pc = IF st.nremaining > st.n THEN "count_run" ELSE "merge_force_collapse"]

\* the run that merge_force_collapse merges with the one behind it
ForcedAt(pending) ==
    IF Len(pending) > 2 /\ pending[Len(pending) - 2].len < pending[Len(pending)].len
    THEN Len(pending) - 3
    ELSE Len(pending) - 2

\* merge_force_collapse: the pending runs are merged until one is left
MergeForceCollapse(st) ==
    IF Len(st.pending) > 1
    THEN [st EXCEPT !.i = ForcedAt(st.pending), !.back = "merge_force_collapse",
                    !.pc = "merge_at"]
    ELSE Going(st, "done")

\* the stack with the runs i and i + 1 as one
RunsJoined(pending, i) ==
    SubSeq(pending, 1, i) \o << [pending[i + 1] EXCEPT !.len = @ + pending[i + 2].len] >>
    \o SubSeq(pending, i + 3, Len(pending))

\* the call gallop_left(key, a, n, hint), or gallop_right, in the array arr
\* at base; it goes on at `after` with its result k
Gallop(st, left, key, arr, base, n, hint, after) ==
    [st EXCEPT !.pc = IF left THEN "gallop_left" ELSE "gallop_right", !.key = key,
               !.arr = arr, !.base = base, !.gn = n, !.hint = hint, !.lastofs = 0, !.ofs = 1,
               !.after = after]

\* the array a gallop looks in
Galloped(st) == IF st.arr = "a" THEN st.a ELSE st.t

\* merge_at: the runs i and i + 1 of the stack; where does b start in a?
MergeAt(st) ==
    Gallop([st EXCEPT !.pa = st.pending[st.i + 1].base, !.na = st.pending[st.i + 1].len,
                      !.pb = st.pending[st.i + 2].base, !.nb = st.pending[st.i + 2].len,
                      !.pending = RunsJoined(@, st.i)],
           FALSE, At(st.a, st.pending[st.i + 2].base), "a",
           st.pending[st.i + 1].base, st.pending[st.i + 1].len, 0, "merge_at_right")

\* the items of a before that place are where they belong; where does a end
\* in b?
MergeAtRight(st) ==
    IF st.na = st.k THEN [st EXCEPT !.pa = @ + st.k, !.na = 0, !.pc = st.back]
    ELSE Gallop([st EXCEPT !.pa = @ + st.k, !.na = @ - st.k],
                TRUE, At(st.a, st.pa + st.na - 1), "a", st.pb, st.nb, st.nb - 1,
                "merge_at_left")

\* the items of b from that place on are where they belong; the rest is
\* merged, with a copy of the shorter of the two
MergeAtLeft(st) ==
    IF st.k <= 0 THEN Going(st, st.back)
    ELSE [st EXCEPT !.nb = st.k, !.pc = IF st.na <= st.k THEN "merge_lo" ELSE "merge_hi"]

\* a gallop to the right is over: the offsets from the hint become offsets
\* from a[0], then ++lastofs
GallopedRight(st, search) ==
    [st EXCEPT !.lastofs = @ + st.hint + 1, !.ofs = Least(@, st.maxofs) + st.hint,
               !.pc = search]

\* a gallop to the left is over
GallopedLeft(st, search) ==
    [st EXCEPT !.lastofs = st.hint - Least(st.ofs, st.maxofs) + 1, !.ofs = st.hint - st.lastofs,
               !.pc = search]

\* lastofs = ofs; ofs = (ofs << 1) + 1
Further(st) == [st EXCEPT !.lastofs = st.ofs, !.ofs = 2 * @ + 1]

\* gallop_left: a[hint] < key gallops to the right, until
\* a[hint + lastofs] < key <= a[hint + ofs], else to the left
GallopLeftFirst(st, lt) ==
    IF ~lt.ok THEN Raising(st, lt)
    ELSE IF lt.v THEN [st EXCEPT !.maxofs = st.gn - st.hint, !.pc = "gallop_left_right"]
    ELSE [st EXCEPT !.maxofs = st.hint + 1, !.pc = "gallop_left_left"]

GallopLeft(st) ==
    GallopLeftFirst(st, KeyLt(At(Galloped(st), st.base + st.hint).key, st.key.key))

GallopLeftRightNext(st, lt) ==
    IF ~lt.ok THEN Raising(st, lt)
    ELSE IF lt.v THEN Further(st)
    ELSE GallopedRight(st, "gallop_left_search")

GallopLeftRight(st) ==
    IF st.ofs < st.maxofs
    THEN GallopLeftRightNext(st, KeyLt(At(Galloped(st), st.base + st.hint + st.ofs).key,
                                       st.key.key))
    ELSE GallopedRight(st, "gallop_left_search")

GallopLeftLeftNext(st, lt) ==
    IF ~lt.ok THEN Raising(st, lt)
    ELSE IF lt.v THEN GallopedLeft(st, "gallop_left_search")
    ELSE Further(st)

GallopLeftLeft(st) ==
    IF st.ofs < st.maxofs
    THEN GallopLeftLeftNext(st, KeyLt(At(Galloped(st), st.base + st.hint - st.ofs).key,
                                      st.key.key))
    ELSE GallopedLeft(st, "gallop_left_search")

\* the binary search of gallop_left, with a[lastofs-1] < key <= a[ofs]
GallopLeftSearched(st, m, lt) ==
    IF ~lt.ok THEN Raising(st, lt)
    ELSE IF lt.v THEN [st EXCEPT !.lastofs = m + 1]
    ELSE [st EXCEPT !.ofs = m]

GallopLeftSearch(st) ==
    IF st.lastofs < st.ofs
    THEN GallopLeftSearched(st, Mid(st.lastofs, st.ofs),
                            KeyLt(At(Galloped(st), st.base + Mid(st.lastofs, st.ofs)).key,
                                  st.key.key))
    ELSE [st EXCEPT !.k = st.ofs, !.pc = st.after]

\* gallop_right: key < a[hint] gallops to the left, until
\* a[hint - ofs] <= key < a[hint - lastofs], else to the right
GallopRightFirst(st, lt) ==
    IF ~lt.ok THEN Raising(st, lt)
    ELSE IF lt.v THEN [st EXCEPT !.maxofs = st.hint + 1, !.pc = "gallop_right_left"]
    ELSE [st EXCEPT !.maxofs = st.gn - st.hint, !.pc = "gallop_right_right"]

GallopRight(st) ==
    GallopRightFirst(st, KeyLt(st.key.key, At(Galloped(st), st.base + st.hint).key))

GallopRightLeftNext(st, lt) ==
    IF ~lt.ok THEN Raising(st, lt)
    ELSE IF lt.v THEN Further(st)
    ELSE GallopedLeft(st, "gallop_right_search")

GallopRightLeft(st) ==
    IF st.ofs < st.maxofs
    THEN GallopRightLeftNext(st, KeyLt(st.key.key,
                                       At(Galloped(st), st.base + st.hint - st.ofs).key))
    ELSE GallopedLeft(st, "gallop_right_search")

GallopRightRightNext(st, lt) ==
    IF ~lt.ok THEN Raising(st, lt)
    ELSE IF lt.v THEN GallopedRight(st, "gallop_right_search")
    ELSE Further(st)

GallopRightRight(st) ==
    IF st.ofs < st.maxofs
    THEN GallopRightRightNext(st, KeyLt(st.key.key,
                                        At(Galloped(st), st.base + st.hint + st.ofs).key))
    ELSE GallopedRight(st, "gallop_right_search")

\* the binary search of gallop_right, with a[lastofs-1] <= key < a[ofs]
GallopRightSearched(st, m, lt) ==
    IF ~lt.ok THEN Raising(st, lt)
    ELSE IF lt.v THEN [st EXCEPT !.ofs = m]
    ELSE [st EXCEPT !.lastofs = m + 1]

GallopRightSearch(st) ==
    IF st.lastofs < st.ofs
    THEN GallopRightSearched(st, Mid(st.lastofs, st.ofs),
                             KeyLt(st.key.key,
                                   At(Galloped(st), st.base + Mid(st.lastofs, st.ofs)).key))
    ELSE [st EXCEPT !.k = st.ofs, !.pc = st.after]

\* min_gallop -= min_gallop > 1; ms->min_gallop = min_gallop
Eased(st) ==
    [st EXCEPT !.mg = IF @ > 1 THEN @ - 1 ELSE @,
               !.min_gallop = IF st.mg > 1 THEN st.mg - 1 ELSE st.mg]

\* ++min_gallop, to penalize it for leaving galloping mode, and the merge
\* goes on one item at a time
Penalized(st, one) ==
    [st EXCEPT !.mg = @ + 1, !.min_gallop = st.mg + 1, !.acount = 0, !.bcount = 0, !.pc = one]

\* merge_lo, where a is the shorter run: t is the copy of a, the merge is
\* written from the left, pa is a place in t and pb one in the list
LoCopyB(st) ==
    [st EXCEPT !.a[st.dest + 1] = At(st.a, st.pb), !.dest = @ + 1, !.pb = @ + 1, !.nb = @ - 1]

LoCopyA(st) ==
    [st EXCEPT !.a[st.dest + 1] = At(st.t, st.pa), !.dest = @ + 1, !.pa = @ + 1, !.na = @ - 1]

LoBegun(st) ==
    IF st.nb = 0 THEN Going(st, "merge_lo_succeed")
    ELSE IF st.na = 1 THEN Going(st, "merge_lo_copy_b")
    ELSE Going(st, "merge_lo_one")

MergeLo(st) ==
    LoBegun(LoCopyB([st EXCEPT !.t = Slice(st.a, st.pa, st.na), !.dest = st.pa, !.pa = 0,
                               !.mg = st.min_gallop, !.acount = 0, !.bcount = 0]))

LoWonB(st) ==
    IF st.nb = 0 THEN Going(st, "merge_lo_succeed")
    ELSE IF st.bcount >= st.mg THEN [st EXCEPT !.mg = @ + 1, !.pc = "merge_lo_gallop"]
    ELSE st

LoWonA(st) ==
    IF st.na = 1 THEN Going(st, "merge_lo_copy_b")
    ELSE IF st.acount >= st.mg THEN [st EXCEPT !.mg = @ + 1, !.pc = "merge_lo_gallop"]
    ELSE st

\* one item at a time, until one run wins min_gallop times in a row
MergeLoTaken(st, lt) ==
    IF ~lt.ok THEN Raising(st, lt)
    ELSE IF lt.v THEN LoWonB([LoCopyB(st) EXCEPT !.bcount = @ + 1, !.acount = 0])
    ELSE LoWonA([LoCopyA(st) EXCEPT !.acount = @ + 1, !.bcount = 0])

MergeLoOne(st) == MergeLoTaken(st, KeyLt(At(st.a, st.pb).key, At(st.t, st.pa).key))

\* galloping: the items of a that go before the first of b
MergeLoGallop(st) ==
    Gallop(Eased(st), FALSE, At(st.a, st.pb), "t", st.pa, st.na, 0, "merge_lo_right")

LoNextB(st) ==
    IF st.nb = 0 THEN Going(st, "merge_lo_succeed")
    ELSE Gallop(st, TRUE, At(st.t, st.pa), "a", st.pb, st.nb, 0, "merge_lo_left")

LoAfterA(st) ==
    IF st.k > 0 /\ st.na = 1 THEN Going(st, "merge_lo_copy_b")
    ELSE IF st.k > 0 /\ st.na = 0 THEN Going(st, "merge_lo_succeed")
    ELSE LoNextB(LoCopyB(st))

MergeLoRight(st) ==
    LoAfterA([st EXCEPT !.acount = st.k, !.a = Put(@, st.dest, Slice(st.t, st.pa, st.k)),
                        !.dest = @ + st.k, !.pa = @ + st.k, !.na = @ - st.k])

LoGalloped(st) ==
    IF st.na = 1 THEN Going(st, "merge_lo_copy_b")
    ELSE IF st.acount >= MIN_GALLOP \/ st.bcount >= MIN_GALLOP THEN Going(st, "merge_lo_gallop")
    ELSE Penalized(st, "merge_lo_one")

LoAfterB(st) ==
    IF st.k > 0 /\ st.nb = 0 THEN Going(st, "merge_lo_succeed")
    ELSE LoGalloped(LoCopyA(st))

\* the items of b that go before the first of a
MergeLoLeft(st) ==
    LoAfterB([st EXCEPT !.bcount = st.k, !.a = Put(@, st.dest, Slice(st.a, st.pb, st.k)),
                        !.dest = @ + st.k, !.pb = @ + st.k, !.nb = @ - st.k])

\* Succeed: what is left of a is copied behind the merge
MergeLoSucceed(st) ==
    [st EXCEPT !.a = Put(@, st.dest, Slice(st.t, st.pa, st.na)), !.pc = st.back]

\* CopyB: the last item of a goes behind what is left of b
MergeLoCopyB(st) ==
    [st EXCEPT !.a = Put(Put(@, st.dest, Slice(st.a, st.pb, st.nb)),
                         st.dest + st.nb, << At(st.t, st.pa) >>),
               !.pc = st.back]

\* merge_hi, where b is the shorter run: t is the copy of b, the merge is
\* written from the right, pa is a place in the list and pb one in t
HiCopyA(st) ==
    [st EXCEPT !.a[st.dest + 1] = At(st.a, st.pa), !.dest = @ - 1, !.pa = @ - 1, !.na = @ - 1]

HiCopyB(st) ==
    [st EXCEPT !.a[st.dest + 1] = At(st.t, st.pb), !.dest = @ - 1, !.pb = @ - 1, !.nb = @ - 1]

HiBegun(st) ==
    IF st.na = 0 THEN Going(st, "merge_hi_succeed")
    ELSE IF st.nb = 1 THEN Going(st, "merge_hi_copy_a")
    ELSE Going(st, "merge_hi_one")

MergeHi(st) ==
    HiBegun(HiCopyA([st EXCEPT !.t = Slice(st.a, st.pb, st.nb), !.dest = st.pb + st.nb - 1,
                               !.basea = st.pa, !.baseb = 0, !.pa = st.pa + st.na - 1,
                               !.pb = st.nb - 1, !.mg = st.min_gallop, !.acount = 0,
                               !.bcount = 0]))

HiWonA(st) ==
    IF st.na = 0 THEN Going(st, "merge_hi_succeed")
    ELSE IF st.acount >= st.mg THEN [st EXCEPT !.mg = @ + 1, !.pc = "merge_hi_gallop"]
    ELSE st

HiWonB(st) ==
    IF st.nb = 1 THEN Going(st, "merge_hi_copy_a")
    ELSE IF st.bcount >= st.mg THEN [st EXCEPT !.mg = @ + 1, !.pc = "merge_hi_gallop"]
    ELSE st

MergeHiTaken(st, lt) ==
    IF ~lt.ok THEN Raising(st, lt)
    ELSE IF lt.v THEN HiWonA([HiCopyA(st) EXCEPT !.acount = @ + 1, !.bcount = 0])
    ELSE HiWonB([HiCopyB(st) EXCEPT !.bcount = @ + 1, !.acount = 0])

MergeHiOne(st) == MergeHiTaken(st, KeyLt(At(st.t, st.pb).key, At(st.a, st.pa).key))

\* galloping: the items of a that go behind the last of b
MergeHiGallop(st) ==
    Gallop(Eased(st), FALSE, At(st.t, st.pb), "a", st.basea, st.na, st.na - 1, "merge_hi_right")

HiNextB(st) ==
    IF st.nb = 1 THEN Going(st, "merge_hi_copy_a")
    ELSE Gallop(st, TRUE, At(st.a, st.pa), "t", st.baseb, st.nb, st.nb - 1, "merge_hi_left")

HiAfterA(st) ==
    IF st.acount > 0 /\ st.na = 0 THEN Going(st, "merge_hi_succeed")
    ELSE HiNextB(HiCopyB(st))

\* k = na - k items of a are moved
MergeHiRight(st) ==
    HiAfterA([st EXCEPT !.acount = st.na - st.k,
                        !.a = Put(@, st.dest - (st.na - st.k) + 1,
                                  Slice(st.a, st.pa - (st.na - st.k) + 1, st.na - st.k)),
                        !.dest = @ - (st.na - st.k), !.pa = @ - (st.na - st.k), !.na = st.k])

HiGalloped(st) ==
    IF st.na = 0 THEN Going(st, "merge_hi_succeed")
    ELSE IF st.acount >= MIN_GALLOP \/ st.bcount >= MIN_GALLOP THEN Going(st, "merge_hi_gallop")
    ELSE Penalized(st, "merge_hi_one")

HiAfterB(st) ==
    IF st.bcount > 0 /\ st.nb = 1 THEN Going(st, "merge_hi_copy_a")
    ELSE IF st.bcount > 0 /\ st.nb = 0 THEN Going(st, "merge_hi_succeed")
    ELSE HiGalloped(HiCopyA(st))

\* k = nb - k items of b are copied
MergeHiLeft(st) ==
    HiAfterB([st EXCEPT !.bcount = st.nb - st.k,
                        !.a = Put(@, st.dest - (st.nb - st.k) + 1,
                                  Slice(st.t, st.pb - (st.nb - st.k) + 1, st.nb - st.k)),
                        !.dest = @ - (st.nb - st.k), !.pb = @ - (st.nb - st.k), !.nb = st.k])

\* Succeed: what is left of b is copied before the merge
MergeHiSucceed(st) ==
    [st EXCEPT !.a = Put(@, st.dest - (st.nb - 1), Slice(st.t, st.baseb, st.nb)), !.pc = st.back]

\* CopyA: the first item of b goes before what is left of a
MergeHiCopyA(st) ==
    [st EXCEPT !.a = Put(Put(@, st.dest + 1 - st.na, Slice(st.a, st.pa + 1 - st.na, st.na)),
                         st.dest - st.na, << At(st.t, st.pb) >>),
               !.pc = st.back]

\* the sort is over: it ended, or a comparison raised
Ended(st) == st.pc \in {"done", "raised"}

\* one step of the sort, from where it is to the next comparison at most
SortStep(st) ==
    CASE st.pc = "count_run"            -> CountRun(st)
      [] st.pc = "count_more"           -> CountMore(st)
      [] st.pc = "run_found"            -> RunFound(st)
      [] st.pc = "binarysort"           -> BinarySort(st)
      [] st.pc = "binary_probe"         -> BinaryProbe(st)
      [] st.pc = "found_new_run"        -> FoundNewRun(st)
      [] st.pc = "collapse"             -> Collapse(st)
      [] st.pc = "push"                 -> Push(st)
      [] st.pc = "merge_force_collapse" -> MergeForceCollapse(st)
      [] st.pc = "merge_at"             -> MergeAt(st)
      [] st.pc = "merge_at_right"       -> MergeAtRight(st)
      [] st.pc = "merge_at_left"        -> MergeAtLeft(st)
      [] st.pc = "gallop_left"          -> GallopLeft(st)
      [] st.pc = "gallop_left_right"    -> GallopLeftRight(st)
      [] st.pc = "gallop_left_left"     -> GallopLeftLeft(st)
      [] st.pc = "gallop_left_search"   -> GallopLeftSearch(st)
      [] st.pc = "gallop_right"         -> GallopRight(st)
      [] st.pc = "gallop_right_left"    -> GallopRightLeft(st)
      [] st.pc = "gallop_right_right"   -> GallopRightRight(st)
      [] st.pc = "gallop_right_search"  -> GallopRightSearch(st)
      [] st.pc = "merge_lo"             -> MergeLo(st)
      [] st.pc = "merge_lo_one"         -> MergeLoOne(st)
      [] st.pc = "merge_lo_gallop"      -> MergeLoGallop(st)
      [] st.pc = "merge_lo_right"       -> MergeLoRight(st)
      [] st.pc = "merge_lo_left"        -> MergeLoLeft(st)
      [] st.pc = "merge_lo_succeed"     -> MergeLoSucceed(st)
      [] st.pc = "merge_lo_copy_b"      -> MergeLoCopyB(st)
      [] st.pc = "merge_hi"             -> MergeHi(st)
      [] st.pc = "merge_hi_one"         -> MergeHiOne(st)
      [] st.pc = "merge_hi_gallop"      -> MergeHiGallop(st)
      [] st.pc = "merge_hi_right"       -> MergeHiRight(st)
      [] st.pc = "merge_hi_left"        -> MergeHiLeft(st)
      [] st.pc = "merge_hi_succeed"     -> MergeHiSucceed(st)
      [] st.pc = "merge_hi_copy_a"      -> MergeHiCopyA(st)

RECURSIVE SortSteps(_, _)
\* n steps at most from st on, one half after the other
SortSteps(st, n) ==
    IF Ended(st) THEN st
    ELSE IF n <= 1 THEN SortStep(st)
    ELSE SortSteps(SortSteps(st, n \div 2), n - (n \div 2))

RECURSIVE SortRun(_, _)
\* the steps of the sort to its end: n of them, then twice as many
SortRun(st, n) == IF Ended(st) THEN st ELSE SortRun(SortSteps(st, n), 2 * n)

\* what a sort that is over gives: the list, or the exception
SortResult(st) == IF st.pc = "raised" THEN Broke(st.error) ELSE Fine(st.a)

\* list.sort of the keyed items xs: [ok, v], v the items in order, or the
\* message of the exception of the first comparison that raised
ListSort(xs) == IF Len(xs) < 2 THEN Fine(xs) ELSE SortResult(SortRun(SortOf(xs), 1))

\* a sort that ended, reversed
ReversedAgain(sorted) == IF ~sorted.ok THEN sorted ELSE Fine(Reversed(sorted.v))

\* the items of a sort that ended
SortedItems(sorted) ==
    IF ~sorted.ok THEN sorted ELSE Fine([j \in 1..Len(sorted.v) |-> sorted.v[j].item])

\* receipts.sort(key=uploadTimestamp, reverse=True): the list is reversed,
\* sorted, and reversed again, which keeps items of one key in their order
SortNewestFirst(items) == SortedItems(ReversedAgain(ListSort(Reversed(Keyed(items)))))

\* [r for r in Items if r.get('category') == category]
OfCategory(items, category) ==
    SelectSeq(items, LAMBDA r : /\ Get(r, T("category"), None).k = "str"
                                /\ Get(r, T("category"), None).v = category)

\* r.get('amount', 0)
ReceiptAmount(r) == Get(r, T("amount"), PyInt(0))

\* float(r.get('amount', 0)) raises for none of the receipts
AmountsConvert(receipts) == \A j \in 1..Len(receipts) : FloatOf(ReceiptAmount(receipts[j])).ok

\* the message of the exception float(x) raises
FloatError(x) ==
    CASE x.k = "str" -> T("could not convert string to float: ") \o ReprStr(x.v)
      [] x.k = "int" -> T("int too large to convert to float")
      [] x.k = "dec" -> T("cannot convert signaling NaN to float")
      [] OTHER -> T("float() argument must be a string or a real number, not '")
                  \o TypeName(x) \o T("'")

\* the message for the first receipt whose amount float() does not take
AmountFailure(receipts) ==
    FloatError(ReceiptAmount(receipts[SetMin({ j \in 1..Len(receipts) :
                                           ~FloatOf(ReceiptAmount(receipts[j])).ok })]))

RECURSIVE TotalFrom(_, _, _, _)
\* acc and the amounts of receipts[j..last], added one after the other: those
\* of the first half, then those of the second; nan stays nan, whatever is
\* added to it
TotalFrom(receipts, j, last, acc) ==
    IF acc.k = "nan" \/ j > last THEN acc
    ELSE IF j = last THEN FloatAdd(acc, FloatOf(ReceiptAmount(receipts[j])).v)
    ELSE TotalFrom(receipts, Mid(j, last) + 1, last, TotalFrom(receipts, j, Mid(j, last), acc))

\* sum(float(r.get('amount', 0)) for r in receipts), which starts from the
\* int 0
TotalAmount(receipts) ==
    IF receipts = << >> THEN PyInt(0) ELSE TotalFrom(receipts, 1, Len(receipts), Zero(FALSE))

\* total_amount / len(receipts) if receipts else 0
AverageAmount(total, n) == IF n = 0 THEN PyInt(0) ELSE FloatDiv(total, n)

\* round(x, 2): an int is left as it is
Round(x) == IF x.k = "int" THEN x ELSE Round2(x)

\* the success body of the receipts, filtered, sorted and converted
CategoryBody(receipts, category) ==
    [receipts       |-> receipts,
     category       |-> category,
     count          |-> Len(receipts),
     total_amount   |-> Round(TotalAmount(receipts)),
     average_amount |-> Round(AverageAmount(TotalAmount(receipts), Len(receipts)))]

\* table.scan(): an exception, or the items of one page, which are the first
\* n of the table; the items behind them are left to a further scan that
\* starts at LastEvaluatedKey
Scan(stored, out) == SubSeq(stored, 1, out.n)

\* the category, in title case, is one of valid_categories
IsKnownCategory(category) ==
    /\ Truthy(category)
    /\ category.k = "str"
    /\ \E j \in 1..Len(api_valid_categories) : api_valid_categories[j] = Title(category.v)

\* except Exception as e
RetrievalError(e) == error_response(500, T("Error retrieving receipts: ") \o e)

\* the statistics and the response, after convert_decimals
Summed(receipts, category) ==
    IF ~AmountsConvert(receipts) THEN RetrievalError(AmountFailure(receipts))
    ELSE success_response(CategoryBody(receipts, category))

\* convert_decimals and what follows, after the sort
Listed(sorted, category) ==
    IF ~sorted.ok THEN RetrievalError(sorted.v)
    ELSE IF ~DecimalsConvert(Arr(sorted.v))
    THEN RetrievalError(T("cannot convert signaling NaN to float"))
    ELSE Summed(convert_decimals(Arr(sorted.v)).v, category)

\* a category that is no str has no title()
get_receipts_by_category(category, stored, out) ==
    IF ~Truthy(category) THEN error_response(400, T("Category is required"))
    ELSE IF category.k # "str"
    THEN RetrievalError(T("'") \o TypeName(category) \o T("' object has no attribute 'title'"))
    ELSE IF ~IsKnownCategory(category)
    THEN error_response(400, T("Invalid category. Valid categories: ")
                               \o JoinWith(T(", "), api_valid_categories))
    ELSE IF out.k = "raise" THEN RetrievalError(out.e)
    ELSE Listed(SortNewestFirst(OfCategory(Scan(stored, out), Title(category.v))),
                Title(category.v))

\* str(uuid.uuid4()) and datetime.utcnow().isoformat() of the n-th write:
\* texts that tell the writes apart, the times in the order of the writes
ReceiptIdOf(n) == T("0f8fad5b-d9cb-469f-a165-70867728950" \o ToString(n))

UploadTimeOf(n) == T("2024-03-12T10:15:0" \o ToString(n) \o ".250000")

\* a line item as a scan gives it: the attributes it was stored with
ScannedLineItem(line_item) == DictOf(item_fields, line_item)

\* the dict a scan gives for an item that store_receipt_data wrote: the
\* attributes in the order of the dict of put_item, those that are optional
\* when they were set, a number as the Decimal it was stored as
ScannedItem(item) ==
    DictOf(<< "receiptId", "uploadTimestamp", "originalText", "s3Key", "amount", "vendor",
              "category", "confidence", "currency", "receiptDate", "lineItems",
              "hasDetailedItems", "processingMethod", "subtotal", "totalTax", "discounts" >>,
           [item EXCEPT !.receiptId = Str(ReceiptIdOf(@)),
                        !.uploadTimestamp = Str(UploadTimeOf(@)),
                        !.originalText = Str(@),
                        !.s3Key = Str(@),
                        !.lineItems = Arr([j \in 1..Len(@) |-> ScannedLineItem(@[j])]),
                        !.processingMethod = Str(@)])

\* an item of the table: what store_receipt_data writes for the receipt
\* with the number n, written at the time of the number at, for the
\* candidate that is read from a completion
StoredFor(n, at, completion) ==
    ScannedItem(ReceiptItem(n, KeyOf(n), JoinLines(ScenarioLines),
                            parse_claude_response_enhanced(T(completion), ModuleFrames).v, at))

\* the items the table of the model is made of: three of one category, two
\* of them of one instant; one with line items, a subtotal and a tax
StoredPool ==
    { StoredFor(1, 1, "{\"amount\": 15.44, \"vendor\": \"Tesco\", \"category\": \"Food\", \"confidence\": 0.95, \"currency\": \"GBP\", \"date\": \"2024-03-12\", \"lineItems\": [{\"description\": \"Milk\", \"quantity\": 2, \"unitPrice\": 1.20, \"subtotal\": 2.40, \"taxRate\": 0.2}], \"subtotal\": 12.87, \"totalTax\": 2.57}"),
      StoredFor(2, 2, "{\"amount\": 40.00, \"vendor\": \"Shell\", \"category\": \"Fuel\", \"confidence\": 0.9}"),
      StoredFor(3, 3, "{\"amount\": 8.20, \"vendor\": \"Costa Coffee\", \"category\": \"Food\", \"confidence\": 0.92}"),
      StoredFor(4, 3, "{\"amount\": 5.999, \"vendor\": \"Costa\", \"category\": \"Food\"}") }

RECURSIVE Arrangements(_)
\* the sequences without repetition of the items of a set: the orders in
\* which a scan may give them
Arrangements(S) ==
    { << >> } \cup UNION { { << x >> \o rest : rest \in Arrangements(S \ {x}) } : x \in S }

StoredTables == Arrangements(StoredPool)

\* the category path parameter of a request: missing, or a text
CategoryRequests == { None, Str(<< >>), Str(T("food")), Str(T("FOOD")), Str(T("Fuel")),
                      Str(T("other")), Str(T("snacks")), Str(T("food ")) }

\* what table.scan() does on a table: it raises, or gives a page of at least
\* one item of a table that has items
ScanOutcomes(stored) ==
    { [k |-> "raise", e |-> T("An error occurred (InternalServerError) when calling the Scan operation"), n |-> 0] }
    \cup { [k |-> "page", e |-> << >>, n |-> n] :
             n \in (IF stored = << >> THEN {0} ELSE 1..Len(stored)) }

InitApi == /\ pc = "call"
           /\ nrec = 0
           /\ idx = 0
           /\ ocrRaised = FALSE
           /\ text = << >>
           /\ attempt = 0
           /\ calls = 0
           /\ fellBack = FALSE
           /\ failures = << >>
           /\ reply = [k |-> "none", v |-> << >>]
           /\ receipt_data = None
           /\ table \in StoredTables
           /\ response = NoResponse
           /\ status = << >>
           /\ reads = 0
           /\ event = << >>
           /\ executions = << >>
           /\ arg \in CategoryRequests
           /\ ret = None
           /\ frames = ModuleFrames

\* GET /receipts/category/<category>: the scan is made for a known category
\* only, and answers out
CallByCategory(out) ==
    /\ pc = "call"
    /\ reads' = IF IsKnownCategory(arg) THEN 1 ELSE 0
    /\ ret' = [scan |-> IF IsKnownCategory(arg) THEN out
                        ELSE [k |-> "none", e |-> << >>, n |-> 0]]
    /\ response' = get_receipts_by_category(arg, table, out)
    /\ pc' = "returned"
    /\ UNCHANGED <<nrec, idx, ocrRaised, text, attempt, calls, fellBack, failures, reply,
                   receipt_data, table, status, arg, event, executions, frames>>

NextApi == \E out \in ScanOutcomes(table) : CallByCategory(out)

SpecApi == InitApi /\ [][NextApi]_vars

(***************************************************************************)
(* The workflow trigger: lambda_handler of step-functions-trigger, one     *)
(* step for each record of the notification.  executions holds, for each   *)
(* start_execution that succeeded, the number of the record it was for.    *)
(***************************************************************************)
MaxBatch == 3

\* the records of a notification: the event name and the object key
TriggerRecords ==
    { [eventName |-> T("ObjectCreated:Put"),    key |-> T("receipts/a.jpg")],
      [eventName |-> T("ObjectCreated:Copy"),   key |-> T("receipts/b.png")],
      [eventName |-> T("ObjectCreated:Put"),    key |-> T("uploads/c.jpg")],
      [eventName |-> T("ObjectRemoved:Delete"), key |-> T("receipts/a.jpg")] }

Batches == UNION { [1..n -> TriggerRecords] : n \in 0..MaxBatch }

\* event_name.startswith('ObjectCreated') and key.startswith('receipts/')
Qualifies(record) ==
    /\ StartsAt(record.eventName, 1, T("ObjectCreated"))
    /\ StartsAt(record.key, 1, T("receipts/"))

\* the body of the answer 200: the number of records that the message
\* tells, and bucket/key of every record of the event
TriggeredBody(records) ==
    [message |-> Len(records),
     processed_objects |-> [j \in 1..Len(records) |-> T("bucket/") \o records[j].key]]

InitTrigger == /\ pc = "loop"
               /\ nrec = 0
               /\ idx = 1
               /\ ocrRaised = FALSE
               /\ text = << >>
               /\ attempt = 0
               /\ calls = 0
               /\ fellBack = FALSE
               /\ failures = << >>
               /\ reply = [k |-> "none", v |-> << >>]
               /\ receipt_data = None
               /\ table = << >>
               /\ response = NoResponse
               /\ status = << >>
               /\ reads = 0
               /\ event \in Batches
               /\ executions = << >>
               /\ arg = None
               /\ ret = None
               /\ frames = ModuleFrames

\* a record that is not of a creation event, or whose key is not under
\* receipts/: continue
TriggerSkip ==
    /\ pc = "loop"
    /\ idx <= Len(event)
    /\ ~Qualifies(event[idx])
    /\ idx' = idx + 1
    /\ UNCHANGED <<pc, nrec, ocrRaised, text, attempt, calls, fellBack, failures, reply,
                   receipt_data, table, response, status, arg, ret, reads, event, executions, frames>>

\* start_execution for a qualifying record answers with the execution
TriggerStart ==
    /\ pc = "loop"
    /\ idx <= Len(event)
    /\ Qualifies(event[idx])
    /\ executions' = Append(executions, idx)
    /\ idx' = idx + 1
    /\ UNCHANGED <<pc, nrec, ocrRaised, text, attempt, calls, fellBack, failures, reply,
                   receipt_data, table, response, status, arg, ret, reads, event, frames>>

\* start_execution for a qualifying record raises: the except clause around
\* the loop answers 500, and the records behind it are not looked at
TriggerRaise ==
    /\ pc = "loop"
    /\ idx <= Len(event)
    /\ Qualifies(event[idx])
    /\ response' = [statusCode |-> 500,
                    body |-> [error |-> T("Failed to trigger Step Functions: ClientError")]]
    /\ pc' = "returned"
    /\ UNCHANGED <<nrec, idx, ocrRaised, text, attempt, calls, fellBack, failures, reply,
                   receipt_data, table, status, arg, ret, reads, event, executions, frames>>

\* the loop is through: 200
TriggerReturn ==
    /\ pc = "loop"
    /\ idx > Len(event)
    /\ response' = [statusCode |-> 200, body |-> TriggeredBody(event)]
    /\ pc' = "returned"
    /\ UNCHANGED <<nrec, idx, ocrRaised, text, attempt, calls, fellBack, failures, reply,
                   receipt_data, table, status, arg, ret, reads, event, executions, frames>>

NextTrigger == TriggerSkip \/ TriggerStart \/ TriggerRaise \/ TriggerReturn

SpecTrigger == InitTrigger /\ [][NextTrigger]_vars

(***************************************************************************)
(* Properties of categorize_expense_enhanced and of lambda_handler,        *)
(* checked under Spec.                                                     *)
(***************************************************************************)
\* what parse_claude_response_enhanced makes of each reply that is a text,
\* for each number of calls under way in lambda_handler, which calls it
\* through categorize_expense_enhanced
ParsedReply ==
    [c \in EntryFrames |->
       [r \in { x \in BedrockReplies : x.k = "text" } |->
          parse_claude_response_enhanced(Strip(r.v), c + 2)]]

\* the reply parses, where c calls are under way in lambda_handler, to a
\* candidate that is valid
IsValidReply(r, c) ==
    /\ r.k = "text"
    /\ ParsedReply[c][r].k = "return"
    /\ Truthy(ParsedReply[c][r].v)
    /\ validate_receipt_data_enhanced(ParsedReply[c][r].v) = "True"

ValidReplies == [c \in EntryFrames |-> { r \in BedrockReplies : IsValidReply(r, c) }]

ValidCandidate == [c \in EntryFrames |-> [r \in ValidReplies[c] |-> ParsedReply[c][r].v]]

\* the bodies of the failure results that are not an exception of the
\* categorisation
OtherFailures == { JsonDumps(T("Failed to process receipt image")),
                   JsonDumps(T("Error: InvalidOperation")), JsonDumps(T("Error: put_item")) }

\* C1: categorize_expense_enhanced never raises and always returns a
\* candidate: no failure result of the handler carries an exception of the
\* categorisation, every failed pass (backend error, unparseable response,
\* rejected candidate) only adds one to the attempts, the value handed to
\* the store is a dict, and once max_retries passes have failed it is exactly
\* intelligent_fallback_extraction of the OCR text.
C1_CategorizeNeverRaises ==
    /\ (pc = "done" /\ response.statusCode = 500) => response.body \in OtherFailures
    /\ pc = "bedrock" => attempt = Len(failures) /\ attempt = calls
    /\ pc = "store" => receipt_data.k = "obj"
    /\ fellBack => Len(failures) = max_retries
    /\ (pc = "store" /\ attempt = max_retries)
          => fellBack /\ SameValue(receipt_data, intelligent_fallback_extraction(text))

\* C1 witness: the backend raised, then answered a candidate that is valid
\* but nested one level deeper than json.loads reads where it is called; the
\* RecursionError is a failed pass like the other, and the fallback result
\* of the scenario text is at the store
C1_Witness ==
    /\ pc = "store"
    /\ fellBack
    /\ frames # ModuleFrames
    /\ reply = [k |-> "text", v |-> NestedObject(DeepestRead)]
    /\ failures = << "ClientError", "RecursionError" >>
    /\ text = JoinLines(ScenarioLines)
    /\ SameValue(receipt_data, intelligent_fallback_extraction(text))

\* C2: in one call the backend is invoked at most N = 2 times, and a reply
\* that parses and passes validation ends the loop: its candidate is the
\* one returned, it was the last invocation, and the heuristic extractor did
\* not run.
C2_AtMostTwoCallsReturnOnSuccess ==
    /\ max_retries = 2
    /\ calls <= max_retries
    /\ reply \in ValidReplies[frames]
          => /\ pc # "bedrock"
             /\ ~fellBack
             /\ calls = attempt + 1
             /\ SameValue(receipt_data, ValidCandidate[frames][reply])

\* C2 witness: the second invocation gave a valid candidate, nested as
\* deep as json.loads reads where it is called
C2_Witness ==
    /\ pc = "store"
    /\ calls = 2
    /\ frames = ModuleFrames
    /\ reply = [k |-> "text", v |-> NestedObject(DeepestRead)]
    /\ reply \in ValidReplies[frames]
    /\ SameValue(receipt_data, ValidCandidate[frames][reply])
    /\ ~fellBack

\* C3: when the OCR call fails for a receipt, neither the backend nor the
\* heuristic extractor is invoked for it, no record is written for it, and
\* the request ends with a failure result.
C3_OcrFailureEndsRequest ==
    ocrRaised => /\ pc = "done"
                 /\ response.statusCode = 500
                 /\ calls = 0
                 /\ ~fellBack
                 /\ status[idx] = "ocr_failed"
                 /\ \A j \in 1..Len(table) : table[j].receiptId # idx

\* C3 witness: the OCR of the second record failed after the first was stored
C3_Witness ==
    /\ ocrRaised
    /\ idx = 2
    /\ Len(table) = 1
    /\ response.statusCode = 500

\* a float a with 0 <= a <= 1,000,000
InRange(a) ==
    /\ a.k \in {"float", "inf"}
    /\ ~FloatLt(a, Zero(FALSE))
    /\ ~FloatLt(Num(100 * MaxAmount), a)

\* amount is there and parses as a number a with 0 <= a <= 1,000,000
AmountInRange(data) ==
    /\ T("amount") \in DOMAIN data.v
    /\ FloatOf(data.v[T("amount")]).ok
    /\ InRange(FloatOf(data.v[T("amount")]).v)

\* the amount, category and vendor bounds of a candidate
InBounds(data) ==
    /\ data.k = "obj"
    /\ {T("amount"), T("category"), T("vendor")} \subseteq DOMAIN data.v
    /\ AmountInRange(data)
    /\ data.v[T("category")].k = "str" /\ data.v[T("category")].v \in valid_categories
    /\ data.v[T("vendor")].k = "str" /\ Len(Strip(data.v[T("vendor")].v)) >= 2

\* C4: every candidate categorize_expense_enhanced returns, from the model
\* path or from the fallback, has amount in [0, 1,000,000], category in the
\* closed set and a vendor of trimmed length at least 2.
C4_ReturnedCandidateInBounds == pc = "store" => InBounds(receipt_data)

\* C5: in an invocation with several records, a failure on one record does
\* not keep the others from being processed: when the handler has returned,
\* every record of the event was taken up.
C5_FailureDoesNotStopBatch ==
    pc = "done" => \A i \in 1..nrec : status[i] # "pending"

\* C7: scenario A: the backend failed on every attempt for the text from
\* 'TESCO STORES LTD' to 'TOTAL  £15.43'; the record stored has amount
\* 15.43, a vendor containing 'TESCO', category Food, currency GBP,
\* confidence 0.5 and needsReview true.
C7_ScenarioA ==
    (pc = "done" /\ response.statusCode = 200 /\ fellBack
       /\ failures = << "ClientError", "ClientError" >>
       /\ text = JoinLines(ScenarioLines))
    => /\ table[Len(table)].amount.k = "dec"
       /\ SameValue(FloatOfDecimal(table[Len(table)].amount).v, Num(1543))
       /\ Contains(table[Len(table)].vendor.v, T("TESCO"))
       /\ table[Len(table)].category.v = T("Food")
       /\ table[Len(table)].currency.v = T("GBP")
       /\ SameValue(FloatOfDecimal(table[Len(table)].confidence).v, Num(50))
       /\ "needsReview" \in DOMAIN table[Len(table)]
       /\ table[Len(table)]["needsReview"] = TRUE

\* C8: in every candidate returned, and in every stored record, lineItems
\* is present and hasDetailedItems equals (lineItems is non-empty).
C8_DetailFlagMatchesLineItems ==
    /\ pc = "store"
          => /\ receipt_data.k = "obj"
             /\ {T("lineItems"), T("hasDetailedItems")} \subseteq DOMAIN receipt_data.v
             /\ receipt_data.v[T("hasDetailedItems")].k = "bool"
             /\ receipt_data.v[T("hasDetailedItems")].v
                   <=> Truthy(receipt_data.v[T("lineItems")])
    /\ \A j \in 1..Len(table) :
          /\ table[j].hasDetailedItems.k = "bool"
          /\ table[j].hasDetailedItems.v <=> (table[j].lineItems # << >>)

\* C9: a record built from a validated model response and a record built
\* from the heuristic fallback carry different processingMethod values.
C9_ProcessingMethodTellsPath ==
    \A i, j \in 1..Len(table) :
       (status[table[i].receiptId] = "model" /\ status[table[j].receiptId] = "fallback")
          => table[i].processingMethod # table[j].processingMethod

(***************************************************************************)
(* Properties of intelligent_fallback_extraction, checked under            *)
(* SpecFallback.                                                           *)
(***************************************************************************)
\* C6: intelligent_fallback_extraction is total: on every text, the empty
\* one included, it returns a candidate with amount >= 0, category in the
\* closed set, a non-empty vendor and confidence 0.5 or 0.6; confidence is
\* 0.6 exactly when a line item was extracted, and hasDetailedItems is true
\* exactly then.
C6_FallbackTotal ==
    pc = "returned"
       => /\ ret.k = "obj"
          /\ ret.v[T("amount")].k \in {"float", "inf"}
          /\ ~FloatLt(ret.v[T("amount")], Zero(FALSE))
          /\ ret.v[T("category")].k = "str" /\ ret.v[T("category")].v \in valid_categories
          /\ ret.v[T("vendor")].k = "str" /\ ret.v[T("vendor")].v # << >>
          /\ ret.v[T("confidence")] \in {Num(50), Num(60)}
          /\ ret.v[T("lineItems")].k = "arr"
          /\ ret.v[T("confidence")] = Num(60) <=> Len(ret.v[T("lineItems")].v) >= 1
          /\ ret.v[T("hasDetailedItems")].k = "bool"
          /\ ret.v[T("hasDetailedItems")].v <=> Len(ret.v[T("lineItems")].v) >= 1

\* C6 witness: a text with an amount and no line item returned at confidence
\* 0.5 (the empty text does too; a text with an item returns at 0.6)
C6_Witness ==
    /\ pc = "returned"
    /\ arg = T("AMOUNT DUE 5")
    /\ ret.v[T("amount")] = Num(500)
    /\ ret.v[T("lineItems")].v = << >>
    /\ ret.v[T("confidence")] = Num(50)

\* the amount patterns that match the text at least once
MatchingPatterns(s) ==
    { p \in 1..Len(amount_patterns) : AmountMatches(s, p) # << >> }

\* the first of them in the order of priority
FirstMatching(s) ==
    CHOOSE p \in MatchingPatterns(s) : \A q \in MatchingPatterns(s) : p <= q

\* the numbers among the conversions fs of the matches
NumbersOf(fs) == { fs[j].v : j \in { i \in 1..Len(fs) : fs[i].ok } }

\* the greatest of the numbers, 0.0 when there is none
GreatestOf(ns) ==
    IF ns = {} THEN Zero(FALSE) ELSE CHOOSE m \in ns : \A n \in ns : ~FloatLt(m, n)

\* the amount as the claim tells it: of the first pattern that matches
FirstPatternAmount(s) ==
    IF MatchingPatterns(s) = {} THEN Zero(FALSE)
    ELSE GreatestOf(NumbersOf(MatchAmounts(s, AmountMatches(s, FirstMatching(s)))))

\* C15: the amount of intelligent_fallback_extraction is the maximum numeric
\* value among the matches of the first amount pattern, in the order of
\* priority, that matches at least once; patterns behind it are not
\* consulted; the amount is 0.0 when no pattern matches.
C15_AmountOfFirstMatchingPattern ==
    pc = "returned" => SameValue(ret.v[T("amount")], FirstPatternAmount(arg))

\* C15, the part that holds: when every match of the first matching pattern
\* is a number, the amount is their maximum, whatever the patterns behind it
\* would give; and it is 0.0 when no pattern matches
C15_Holds ==
    (/\ pc = "returned"
     /\ \A p \in MatchingPatterns(arg) :
           p = FirstMatching(arg)
              => \A j \in 1..Len(AmountMatches(arg, p)) :
                    MatchAmounts(arg, AmountMatches(arg, p))[j].ok)
       => SameValue(ret.v[T("amount")], FirstPatternAmount(arg))

(***************************************************************************)
(* Properties of validate_receipt_data_enhanced, checked under             *)
(* SpecValidate.                                                           *)
(***************************************************************************)
\* vendor, category and line items of the candidate are valid
OthersValid(data) ==
    /\ data.k = "obj"
    /\ {T("vendor"), T("category")} \subseteq DOMAIN data.v
    /\ data.v[T("vendor")].k = "str" /\ Len(Strip(data.v[T("vendor")].v)) >= 2
    /\ data.v[T("category")].k = "str" /\ data.v[T("category")].v \in valid_categories
    /\ LineItemsCheck(data) = "True"

\* C10: on a candidate whose vendor, category and line items are valid,
\* validate_receipt_data_enhanced accepts if and only if amount parses as a
\* number a with 0 <= a <= 1,000,000; a missing or non-numeric amount is
\* rejected.
C10_AcceptsIffAmountInRange ==
    (pc = "returned" /\ OthersValid(arg)) => (ret = "True" <=> AmountInRange(arg))

\* a line item as the claim wants it: an object with a description that is
\* not empty, whose quantity, unitPrice and subtotal, where present, parse as
\* numbers
DescribedItem(item) ==
    /\ item.k = "obj"
    /\ T("description") \in DOMAIN item.v
    /\ Truthy(item.v[T("description")])
    /\ \A field \in {T("quantity"), T("unitPrice"), T("subtotal")} :
          field \in DOMAIN item.v => FloatOf(item.v[field]).ok

\* lineItems of the candidate is present and not empty, and its amount is a
\* number of the range
HasLineItems(data) ==
    /\ data.k = "obj"
    /\ T("lineItems") \in DOMAIN data.v
    /\ Truthy(data.v[T("lineItems")])
    /\ AmountInRange(data)

\* C14: validate_receipt_data_enhanced accepts a candidate whose lineItems
\* is present and not empty only if lineItems is a sequence of objects that
\* each have a non-empty description and numeric quantity, unitPrice and
\* subtotal where present; a line item with an empty description is
\* rejected.
C14_AcceptedLineItemsAreDescribed ==
    (pc = "returned" /\ HasLineItems(arg) /\ ret = "True")
       => /\ arg.v[T("lineItems")].k = "arr"
          /\ \A j \in 1..Len(arg.v[T("lineItems")].v) : DescribedItem(arg.v[T("lineItems")].v[j])

\* C14, the part that holds: what is accepted is a sequence of objects that
\* each have the key description and numeric quantity, unitPrice and
\* subtotal where present
C14_Holds ==
    (pc = "returned" /\ HasLineItems(arg) /\ ret = "True")
       => /\ arg.v[T("lineItems")].k = "arr"
          /\ \A j \in 1..Len(arg.v[T("lineItems")].v) :
                /\ arg.v[T("lineItems")].v[j].k = "obj"
                /\ T("description") \in DOMAIN arg.v[T("lineItems")].v[j].v
                /\ \A field \in {T("quantity"), T("unitPrice"), T("subtotal")} :
                      field \in DOMAIN arg.v[T("lineItems")].v[j].v
                         => FloatOf(arg.v[T("lineItems")].v[j].v[field]).ok
(***************************************************************************)
(* Properties of parse_claude_response_enhanced, checked under SpecParse.  *)
(***************************************************************************)
\* the response is a JSON object with the key amount and prose around it,
\* and neither json.loads of the response nor of the response without its
\* fences succeeds
IsEmbeddedCase(a) ==
    /\ a.pre # << >> \/ a.suf # << >>
    /\ JsonLoads(a.obj, frames).ok
    /\ JsonLoads(a.obj, frames).v.k = "obj"
    /\ T("amount") \in DOMAIN JsonLoads(a.obj, frames).v.v
    /\ ~JsonLoads(ResponseOf(a), frames).ok
    /\ ~JsonLoads(StripFences(ResponseOf(a)), frames).ok

\* the dict got has every field of the dict wanted, with its value
HasAllFields(got, wanted) ==
    /\ got.k = "obj"
    /\ \A key \in DOMAIN wanted.v :
          key \in DOMAIN got.v /\ SameValue(got.v[key], wanted.v[key])

\* C11: tier 3: for a response that is a JSON object containing the key
\* amount with prose after or before it, so that tiers 1 and 2 fail, the
\* parser returns the embedded object itself with all of its fields, also
\* when the object holds nested line-item objects.
C11_EmbeddedObjectReturned ==
    (pc = "returned" /\ IsEmbeddedCase(arg))
       => ret.k = "return" /\ HasAllFields(ret.v, JsonLoads(arg.obj, frames).v)

(***************************************************************************)
(* Properties of get_receipts_by_category.                                 *)
(***************************************************************************)
\* the receiptIds of the records
IdsOf(records) == { records[j].v[T("receiptId")] : j \in 1..Len(records) }

\* the upload time of a record
UploadedAt(r) == r.v[T("uploadTimestamp")].v

\* each record is not older than the record behind it
NewestFirst(records) ==
    \A j \in 1..Len(records) - 1 :
       TextCmp(UploadedAt(records[j]), UploadedAt(records[j + 1])) >= 0

\* the receiptIds of the records of the table that have the category
StoredOfCategory(category) ==
    { table[j].v[T("receiptId")] :
        j \in { i \in 1..Len(table) : table[i].v[T("category")] = Str(category) } }

\* C12: a category that, in title case, is not one of the eight values is
\* answered 400 with a body that names the valid categories and without a
\* read of the table; a known category, when the scan does not fail, is
\* answered 200 with exactly the stored records of that category, newest
\* first, and with count the number of records returned.
C12_ListsStoredOfCategory ==
    (pc = "returned" /\ arg.k = "str" /\ arg.v # << >>)
       => IF IsKnownCategory(arg)
          THEN ret.scan.k = "page"
                 => /\ response.statusCode = 200
                    /\ IdsOf(response.body.receipts) = StoredOfCategory(Title(arg.v))
                    /\ Len(response.body.receipts) = Cardinality(IdsOf(response.body.receipts))
                    /\ NewestFirst(response.body.receipts)
                    /\ response.body.count = Len(response.body.receipts)
          ELSE /\ response.statusCode = 400
               /\ Contains(response.body.error, JoinWith(T(", "), api_valid_categories))
               /\ reads = 0

\* C12, the part that holds: an unknown category is answered 400 without a
\* read of the table, and what a known category is answered is of that
\* category only, newest first, and counted
C12_Holds ==
    (pc = "returned" /\ arg.k = "str" /\ arg.v # << >>)
       => IF IsKnownCategory(arg)
          THEN ret.scan.k = "page"
                 => /\ response.statusCode = 200
                    /\ IdsOf(response.body.receipts) \subseteq StoredOfCategory(Title(arg.v))
                    /\ NewestFirst(response.body.receipts)
                    /\ response.body.count = Len(response.body.receipts)
          ELSE /\ response.statusCode = 400
               /\ Contains(response.body.error, JoinWith(T(", "), api_valid_categories))
               /\ reads = 0

(***************************************************************************)
(* Properties of the workflow trigger.                                     *)
(***************************************************************************)
\* the number of executions started for record i
StartedFor(i) == Cardinality({ j \in 1..Len(executions) : executions[j] = i })

\* C13: when the trigger has handled a batch, exactly one execution has
\* been started for every record that is of a creation event with a key
\* under receipts/, and none for any other record, whatever happened to the
\* records before it.  The record at idx when the handler has answered 500
\* is the one whose own start_execution raised, and is left aside.
C13_OneExecutionPerQualifyingRecord ==
    pc = "returned"
       => \A i \in (1..Len(event)) \ {idx} :
             StartedFor(i) = (IF Qualifies(event[i]) THEN 1 ELSE 0)

\* C13, the part that holds: no execution is started for a record that does
\* not qualify, at most one for a record that does, and exactly one for
\* every qualifying record when the handler answers 200
C13_Holds ==
    /\ \A i \in 1..Len(event) :
          StartedFor(i) <= (IF Qualifies(event[i]) THEN 1 ELSE 0)
    /\ (pc = "returned" /\ response.statusCode = 200)
          => \A i \in 1..Len(event) :
                StartedFor(i) = (IF Qualifies(event[i]) THEN 1 ELSE 0)

====
